---- MODULE Spec2Model ----
(***************************************************************************)
(* CanvasSync: the concurrent entity-tree synchronisation engine           *)
(* (CanvasSync/entities/canvas_entity.py and the entity classes built on   *)
(* it), the per-leaf incremental write policies and the duplicate          *)
(* registry, as state machines.                                            *)
(***************************************************************************)
EXTENDS Integers, Sequences, FiniteSets, TLC

(***************************************************************************)
(* Bounds of the model.                                                    *)
(***************************************************************************)
\* number of entities in the remote hierarchy (the root included)
MaxNodes == 4
\* largest max_workers of a node's ThreadPoolExecutor that is tried
MaxWorkers == 2
\* longest list of module items
MaxItems == 5
\* deepest indent of a module item
MaxIndent == 1
\* longest byte string of a file's or a response's content
MaxLen == 2
\* latest instant of a remote modification time
MaxTime == 2
\* largest distance of the local timezone from UTC
MaxOffset == 1
\* largest id of a remote file
MaxFile == 1

Node == 0 .. (MaxNodes - 1)
Root == 0
None == -1

VARIABLES
    remote_parent,  \* the remote hierarchy: remote_parent[n] is the entity that lists n
    max_workers,    \* ThreadPoolExecutor()._max_workers, the same for every executor
    kind,           \* kind[n]: the class of entity n (its identifier string)
    ret,            \* ret[n]: what n's own download() returned to n.sync(), from which
                    \* line, after how many download requests
    written,        \* written[n]: n's sync wrote the artifact at n's sync_path
    pc,             \* pc[n]: where the thread running n.sync() is
    children,       \* children[n]: CanvasEntity.children
    print_queue,    \* print_queue[n]: CanvasEntity.print_queue
    has_printed,    \* has_printed[n]: CanvasEntity.has_printed
    child_to_print, \* child_to_print[n]: CanvasEntity.child_to_print
    flush_i,        \* flush_i[n]: position of _flush_print_queue's loop over print_queue
    join_i,         \* join_i[n]: position of sync's loop over futures
    tmp,            \* tmp[n]: value n read from parent.child_to_print for +=
    output,         \* the lines written to stdout, in order, as <<entity, status>>
    \* one leaf entity synced run after run
    leaf,           \* the class of the leaf
    remote,         \* what the remote side answers for the leaf, the same in every run
    platform,       \* the machine: sys.platform and the utcoffset of its timezone
    local,          \* the file at the leaf's sync_path
    shortcut,       \* the shortcut file of an ExternalUrl
    log,            \* one entry per finished sync of the leaf
    \* the branches of one course and the registry of its entities
    avoid_duplicates, \* settings.avoid_duplicates
    listing,        \* listing[b]: the file ids the remote lists under branch b
    entities,       \* synchronizer.entities[course_id], the ids of its File entries
    black_list,     \* black_list[b]: Folder.black_list
    file_children,  \* file_children[b]: the File children of branch b, by id
    branch_pc,      \* branch_pc[b]: where the thread running b.sync() is
    branch_i,       \* branch_i[b]: position of b's loop over its listing
    local_paths,    \* the local files written, as <<branch, file id>>
    \* one call of helpers.reorganize
    items,          \* the argument: the flat list of a module's items
    outer_scope_files, \* outer_scope_files, as positions in items
    sub_folders,    \* sub_folders, each a list of positions in items
    current_sub_folder_index, \* current_sub_folder_index
    item_i,         \* number of turns of the loop over items taken so far
    \* one entity enumerating its children
    handler,        \* the class of the entity
    settings,       \* the settings it reads
    api,            \* what the API calls it makes return
    fields,         \* the entity's own attributes (black_list, sync_path, ...)
    new_children,   \* self.children
    e_pc,           \* the statement the enumeration is at
    e_i             \* number of turns of the current loop taken so far

engine_vars == <<remote_parent, max_workers, kind, ret, written, pc, children, print_queue,
                 has_printed, child_to_print, flush_i, join_i, tmp, output>>
policy_vars == <<leaf, remote, platform, local, shortcut, log>>
dedup_vars == <<avoid_duplicates, listing, entities, black_list, file_children,
                branch_pc, branch_i, local_paths>>
reorganize_vars == <<items, outer_scope_files, sub_folders, current_sub_folder_index,
                     item_i>>
enum_vars == <<handler, settings, api, fields, new_children, e_pc, e_i>>
vars == <<engine_vars, policy_vars, dedup_vars, reorganize_vars, enum_vars>>

(***************************************************************************)
(* Helpers on sequences and on the remote hierarchy.                       *)
(***************************************************************************)
RECURSIVE SortedSeq(_)
SortedSeq(S) ==
    IF S = {} THEN <<>>
    ELSE LET m == CHOOSE x \in S : \A y \in S : x <= y
         IN  <<m>> \o SortedSeq(S \ {m})

Range(s) == { s[i] : i \in 1 .. Len(s) }

\* the entities the remote API lists under n, in declared order
RemoteChildren(n) == SortedSeq({ c \in Node : remote_parent[c] = n })

\* CanvasEntity.parent, set by the constructor
parent(n) == remote_parent[n]

\* position of n in parent.children (0-based, as Python indexes)
IndexIn(s, n) == (CHOOSE i \in 1 .. Len(s) : s[i] = n) - 1

(***************************************************************************)
(* The local filesystem and the remote side, as the leaf entities see them.*)
(* A file is [exists, data, mtime]; data is a byte string, mtime an        *)
(* instant (seconds since the epoch, in units of one hour here).           *)
(***************************************************************************)
Byte == {0, 1}
Data == UNION { [1 .. k -> Byte] : k \in 0 .. MaxLen }
Time == 0 .. MaxTime
\* utcoffset of the local timezone of the machine that runs the sync
UtcOffset == (0 - MaxOffset) .. MaxOffset
\* mtimes a local file can carry
LocalTime == (0 - MaxOffset) .. (MaxTime + MaxOffset)

NoFile == [exists |-> FALSE, data |-> <<>>, mtime |-> 0]
LocalFiles == {NoFile} \cup [exists : {TRUE}, data : Data, mtime : LocalTime]

\* open(path, "wb").write(data): the file's mtime becomes the time of the write
WriteFile(data, now) == [exists |-> TRUE, data |-> data, mtime |-> now]
\* os.utime(path, times=(t, t))
Utime(f, t) == [f EXCEPT !.mtime = t]

\* datetime.fromtimestamp(ts): the naive local wall-clock time of instant ts
FromTimestamp(ts, off) == ts + off
\* naive_datetime.timestamp(): the instant at which the local wall clock shows it
Timestamp(naive, off) == naive - off

(***************************************************************************)
(* File.download and File.sync                                             *)
(* inp.modified_at : file_info["modified_at"], a UTC time ("...Z")         *)
(* inp.local       : the file at self.sync_path                            *)
(* inp.payload     : what api.download_file_payload returns                *)
(* inp.off         : utcoffset of the local timezone                       *)
(* result.calls    : number of download_file_payload calls                 *)
(* result.at       : source line of the return                             *)
(***************************************************************************)
FileInputs ==
    [locked : BOOLEAN, local : LocalFiles, modified_at : Time, payload : Data,
     off : UtcOffset]

\* line 65-68: is the local file up to date
UpToDate(inp, server_time_modified) ==
    /\ inp.local.exists
    /\ server_time_modified <= FromTimestamp(inp.local.mtime, inp.off)

File_download(inp) ==
    \* strptime(..., "%Y-%m-%dT%H:%M:%SZ"): a naive datetime showing the UTC fields
    LET server_time_modified == inp.modified_at IN
    IF UpToDate(inp, server_time_modified)
    THEN [ret |-> "False", at |-> 69, lines |-> <<>>, file |-> inp.local,
          write |-> FALSE, calls |-> 0, raised |-> FALSE]
    ELSE [ret |-> "True", at |-> 92, lines |-> <<"DOWNLOADING">>,
          file |-> Utime(WriteFile(inp.payload, 0),
                         Timestamp(server_time_modified, inp.off)),
          write |-> TRUE, calls |-> 1, raised |-> FALSE]

\* lines 104-105: the else branch of File.sync, for a locked file
LockedBranch_Downloads(inp) ==
    [File_download([inp EXCEPT !.local = NoFile]) EXCEPT !.at = 105, !.lines = <<"LOCKED">>]
LockedBranch(inp) ==
    [ret |-> "None", at |-> 105, lines |-> <<"LOCKED">>, file |-> inp.local,
     write |-> FALSE, calls |-> 0, raised |-> FALSE]

File_sync(inp) ==
    IF ~inp.locked
    THEN LET d == File_download(inp)
         IN  [d EXCEPT !.lines = d.lines \o <<"SYNCED">>]
    ELSE LockedBranch(inp)

(***************************************************************************)
(* LinkedFile.download and LinkedFile.sync                                 *)
(* inp.local   : the file at self.sync_path                                *)
(* inp.resp    : requests.get: "ok" (status 200), "non200", "exc"          *)
(* inp.content : response.content                                          *)
(* inp.now     : the time of the write                                     *)
(***************************************************************************)
LinkedFileInputs ==
    [local : LocalFiles, resp : {"ok", "non200", "exc"}, content : Data, now : Time]

LinkedFile_download(inp) ==
    IF inp.local.exists
    THEN [ret |-> "False", at |-> 83, lines |-> <<>>, file |-> inp.local,
          write |-> FALSE, calls |-> 0, raised |-> FALSE]
    ELSE IF inp.resp = "exc"
    THEN [ret |-> "-1", at |-> 94, lines |-> <<"DOWNLOADED", "FAILED">>,
          file |-> inp.local, write |-> FALSE, calls |-> 1, raised |-> FALSE]
    ELSE IF inp.resp # "ok"
    THEN [ret |-> "-1", at |-> 99, lines |-> <<"DOWNLOADED", "FAILED">>,
          file |-> inp.local, write |-> FALSE, calls |-> 1, raised |-> FALSE]
    ELSE [ret |-> "True", at |-> 104, lines |-> <<"DOWNLOADED">>,
          file |-> WriteFile(inp.content, inp.now),
          write |-> TRUE, calls |-> 1, raised |-> FALSE]

\* line 113: was_downloaded != -1
NotFailed_Always(d) == TRUE
NotFailed(d) == d.ret # "-1"

LinkedFile_sync(inp) ==
    LET d == LinkedFile_download(inp)
    IN  [d EXCEPT !.lines = IF NotFailed(d) THEN d.lines \o <<"SYNCED">> ELSE d.lines]

(***************************************************************************)
(* make_url_shortcut                                                       *)
(* inp.sys      : sys.platform                                             *)
(* inp.url      : the URL                                                  *)
(* inp.shortcut : the file at path + ".webloc" / ".desktop" / ".url"       *)
(* inp.now      : the time of the write                                    *)
(* The content of a shortcut is its platform's template around the URL.    *)
(***************************************************************************)
Url == {"https://a", "https://b"}
Platform == {"darwin", "linux", "win32"}

ShortcutFormat(sys) ==
    IF sys = "darwin" THEN "webloc"
    ELSE IF sys = "linux" THEN "desktop"
    ELSE "url"

ShortcutContent(sys, url) == <<ShortcutFormat(sys), url>>

NoShortcut == [exists |-> FALSE, data |-> <<"none", "">>, mtime |-> 0]
ShortcutFiles(sys) ==
    {NoShortcut} \cup [exists : {TRUE}, data : { ShortcutContent(sys, u) : u \in Url },
                       mtime : {0}]

ShortcutInputs ==
    UNION { [sys : {p}, url : Url, shortcut : ShortcutFiles(p), now : {0}] : p \in Platform }

\* lines 77-80: the file exists and holds the new content already
SameContent_IfExists(new_content, f) == f.exists
SameContent(new_content, f) == f.exists /\ new_content = f.data

make_url_shortcut(inp) ==
    LET new_content == ShortcutContent(inp.sys, inp.url) IN
    IF SameContent(new_content, inp.shortcut)
    THEN [ret |-> "False", at |-> 80, file |-> inp.shortcut, write |-> FALSE]
    ELSE [ret |-> "True", at |-> 83, file |-> WriteFile(new_content, inp.now),
          write |-> TRUE]

(***************************************************************************)
(* download_url_content                                                    *)
(* inp.blacklisted : url_is_blacklisted(url)                               *)
(* inp.local   : the mirror file at filepath                               *)
(* inp.head    : requests.head: "ok" or "exc"                              *)
(* inp.get     : requests.get + raise_for_status: "ok", "err", "exc"       *)
(* inp.lm      : the remote's Last-Modified header, None when it has none  *)
(* inp.content : response.content                                          *)
(* inp.now     : the time of the write                                     *)
(***************************************************************************)
Max(a, b) == IF a >= b THEN a ELSE b

UrlInputs ==
    [blacklisted : BOOLEAN, local : LocalFiles, head : {"ok", "exc"},
     get : {"ok", "err", "exc"}, lm : Time \cup {None}, content : Data, now : Time]

\* line 153-155: new_file_size_ratio > 0.5
RatioOk_AtLeastHalf(new_len, old_len) == 2 * new_len >= Max(1, old_len)
RatioOk(new_len, old_len) == 2 * new_len > Max(1, old_len)

\* lines 161-164: os.utime to the response's Last-Modified, when it has one
SetLastModified(f, lm) == IF lm # None THEN Utime(f, lm) ELSE f

\* lines 131-132 and 147-148: except Exception: return False
RequestFailed_Propagates(inp, line) ==
    [ret |-> "None", at |-> line, file |-> inp.local, write |-> FALSE,
     calls |-> IF line = 148 THEN 1 ELSE 0, raised |-> TRUE]
RequestFailed(inp, line) ==
    [ret |-> "False", at |-> line, file |-> inp.local, write |-> FALSE,
     calls |-> IF line = 148 THEN 1 ELSE 0, raised |-> FALSE]

download_url_content(inp) ==
    IF inp.blacklisted
    THEN [ret |-> "False", at |-> 114, file |-> inp.local, write |-> FALSE,
          calls |-> 0, raised |-> FALSE]
    ELSE IF inp.local.exists /\ inp.head = "exc"
    THEN RequestFailed(inp, 132)
    ELSE IF inp.local.exists /\ inp.lm # None /\ inp.lm <= inp.local.mtime
    THEN [ret |-> "False", at |-> 140, file |-> inp.local, write |-> FALSE,
          calls |-> 0, raised |-> FALSE]
    ELSE IF inp.get # "ok"
    THEN RequestFailed(inp, 148)
    ELSE IF inp.local.exists
    THEN LET file_was_changed == inp.local.data # inp.content
             overwrite == file_was_changed
                          /\ RatioOk(Len(inp.content), Len(inp.local.data))
         IN  [ret |-> IF file_was_changed THEN "True" ELSE "False", at |-> 166,
              file |-> SetLastModified(IF overwrite THEN WriteFile(inp.content, inp.now)
                                       ELSE inp.local, inp.lm),
              write |-> overwrite, calls |-> 1, raised |-> FALSE]
    \* no local file: it is written, file_was_changed is never bound and the
    \* return of line 166 raises UnboundLocalError
    ELSE [ret |-> "None", at |-> 166,
          file |-> SetLastModified(WriteFile(inp.content, inp.now), inp.lm),
          write |-> TRUE, calls |-> 1, raised |-> TRUE]

(***************************************************************************)
(* ExternalUrl.sync: inp.sc for make_url_shortcut, inp.dl for              *)
(* download_url_content                                                    *)
(***************************************************************************)
ExternalUrlInputs == [sc : ShortcutInputs, dl : UrlInputs]

\* lines 63-79, given what the two calls returned
ExternalUrl_report(s, d) ==
    [ret |-> d.ret, at |-> d.at,
     lines |-> (IF s.ret = "True" THEN <<"URL UPDATED">> ELSE <<>>)
               \o (IF d.ret = "True" THEN <<"DOWNLOADING">> ELSE <<>>)
               \o <<"SYNCED">>,
     file |-> d.file, shortcut |-> s.file,
     write |-> d.write, calls |-> d.calls, raised |-> d.raised]

ExternalUrl_sync(inp) ==
    ExternalUrl_report(make_url_shortcut(inp.sc), download_url_content(inp.dl))

(***************************************************************************)
(* Text files. Page.download and Assignment.make_html open their HTML file *)
(* in text mode with the default newline=None: on writing every "\n"       *)
(* becomes os.linesep, on reading "\r\n" and "\r" become "\n".             *)
(* A text is a string over the characters "a", "CR" (\r) and "LF" (\n).    *)
(***************************************************************************)
Char == {"a", "CR", "LF"}
Text == UNION { [1 .. k -> Char] : k \in 0 .. MaxLen }

\* os.linesep
Linesep(sys) == IF sys = "win32" THEN <<"CR", "LF">> ELSE <<"LF">>

\* out_file.write(s) on a file opened with "w"
RECURSIVE EncodeText(_, _)
EncodeText(s, sys) ==
    IF s = <<>> THEN <<>>
    ELSE (IF Head(s) = "LF" THEN Linesep(sys) ELSE <<Head(s)>>)
         \o EncodeText(Tail(s), sys)

\* existing_file.read() on a file opened with "r"
RECURSIVE DecodeText(_)
DecodeText(b) ==
    IF b = <<>> THEN <<>>
    ELSE IF Head(b) = "CR"
    THEN <<"LF">> \o DecodeText(IF Len(b) > 1 /\ b[2] = "LF" THEN Tail(Tail(b))
                                ELSE Tail(b))
    ELSE <<Head(b)>> \o DecodeText(Tail(b))

\* the HTML files an earlier run can have left
TextFiles(sys) ==
    {NoFile} \cup [exists : {TRUE}, data : { EncodeText(t, sys) : t \in Text }, mtime : {0}]

(***************************************************************************)
(* Page.download and Page.sync                                             *)
(* inp.local       : the file at output_path                               *)
(* inp.new_content : the HTML generated from the page's name, link, body   *)
(*                   and metadata                                          *)
(* inp.sys         : sys.platform                                          *)
(***************************************************************************)
PageInputs ==
    UNION { [local : TextFiles(p), new_content : Text, sys : {p}, now : {0}] : p \in Platform }

Page_download(inp) ==
    \* lines 133-139: old_content != new_content, old_content None when no file exists
    IF ~inp.local.exists \/ DecodeText(inp.local.data) # inp.new_content
    THEN [ret |-> "True", at |-> 144, lines |-> <<"DOWNLOADING">>,
          file |-> WriteFile(EncodeText(inp.new_content, inp.sys), inp.now),
          write |-> TRUE, calls |-> 0, raised |-> FALSE]
    ELSE [ret |-> "True", at |-> 144, lines |-> <<>>, file |-> inp.local,
          write |-> FALSE, calls |-> 0, raised |-> FALSE]

Page_sync(inp) ==
    LET d == Page_download(inp)
    IN  [d EXCEPT !.lines = IF d.ret = "True" THEN d.lines \o <<"SYNCED">> ELSE d.lines]

(***************************************************************************)
(* Assignment.make_html: inp.local the file at sync_path + name + ".html", *)
(* inp.new_content the HTML generated from name, link and description      *)
(***************************************************************************)
make_html(inp) ==
    IF ~inp.local.exists
    THEN [ret |-> "None", at |-> 78, lines |-> <<>>,
          file |-> WriteFile(EncodeText(inp.new_content, inp.sys), inp.now),
          write |-> TRUE, calls |-> 0, raised |-> FALSE]
    ELSE [ret |-> "None", at |-> 78, lines |-> <<>>, file |-> inp.local,
          write |-> FALSE, calls |-> 0, raised |-> FALSE]

(***************************************************************************)
(* The sync body of a container entity (Synchronizer, Course, Module,      *)
(* Folder, Assignment): buffer its own line, enumerate its children; a     *)
(* failing API call raises out of the body.                                *)
(***************************************************************************)
EntityInputs == [fault : BOOLEAN]

Entity_sync(inp) ==
    [ret |-> "None", at |-> 0, lines |-> <<"SYNCED">>, file |-> NoFile,
     write |-> FALSE, calls |-> 0, raised |-> inp.fault]

\* SubHeader.sync up to super().sync(): add_items, and no line of its own;
\* inp.fault: the construction of an item raises
SubHeader_sync(inp) ==
    [ret |-> "None", at |-> 0, lines |-> <<>>, file |-> NoFile,
     write |-> FALSE, calls |-> 0, raised |-> inp.fault]

(***************************************************************************)
(* Course.sync                                                             *)
(* inp.to_be_synced : the course's name is in settings.courses_to_sync     *)
(* inp.fault        : a listing call of the enumeration raises             *)
(* result.write     : the course's directory was created (by __init__,     *)
(*                    folder=self.to_be_synced)                            *)
(* result.calls     : number of listing calls (at least the folder listing *)
(*                    of add_files_folder)                                 *)
(***************************************************************************)
CourseInputs == [to_be_synced : BOOLEAN, fault : BOOLEAN]

Course_sync(inp) ==
    IF ~inp.to_be_synced
    THEN [ret |-> "None", at |-> 146, lines |-> <<"SKIPPED">>, file |-> NoFile,
          write |-> FALSE, calls |-> 0, raised |-> FALSE]
    ELSE [ret |-> "None", at |-> 159, lines |-> <<"SYNCED">>, file |-> NoFile,
          write |-> TRUE, calls |-> 1, raised |-> inp.fault]

(***************************************************************************)
(* What the engine sees of an entity's sync body: the lines it buffered,   *)
(* what its download returned and where, whether it wrote, whether it      *)
(* raised.                                                                 *)
(***************************************************************************)
Outcome(r) ==
    [ret |-> r.ret, at |-> r.at, lines |-> r.lines, write |-> r.write, calls |-> r.calls,
     raised |-> r.raised]

EntityOutcomes == { Outcome(Entity_sync(inp)) : inp \in EntityInputs }
SubHeaderOutcomes == { Outcome(SubHeader_sync(inp)) : inp \in EntityInputs }
CourseOutcomes == { Outcome(Course_sync(inp)) : inp \in CourseInputs }
FileOutcomes == { Outcome(File_sync(inp)) : inp \in FileInputs }
LinkedFileOutcomes == { Outcome(LinkedFile_sync(inp)) : inp \in LinkedFileInputs }
ExternalUrlOutcomes ==
    { Outcome(ExternalUrl_report(sr, dr)) :
        sr \in { make_url_shortcut(i) : i \in ShortcutInputs },
        dr \in { download_url_content(i) : i \in UrlInputs } }

\* Assignment.sync: print(str(self)), add_files(), make_html()
Assignment_sync(inp) ==
    LET h == make_html(inp) IN [h EXCEPT !.lines = <<"Assignment">> \o h.lines]

PageOutcomes == { Outcome(Page_sync(inp)) : inp \in PageInputs }
AssignmentOutcomes == { Outcome(Assignment_sync(inp)) : inp \in PageInputs }

Kinds == {"entity", "course", "file", "linked_file", "external_url", "page", "assignment",
          "sub_header"}
\* the classes whose entities write an HTML file of their own and have children
OwnerKinds == {"page", "assignment"}
\* the classes whose entities never have children
LeafKinds == {"file", "linked_file", "external_url"}

\* the body of the sync() of an entity of class k, up to its call of super().sync()
SyncBody(k) ==
    CASE k = "file" -> FileOutcomes
      [] k = "linked_file" -> LinkedFileOutcomes
      [] k = "external_url" -> ExternalUrlOutcomes
      [] k = "course" -> CourseOutcomes
      [] k = "page" -> PageOutcomes
      [] k = "assignment" -> AssignmentOutcomes
      [] k = "sub_header" -> SubHeaderOutcomes
      [] OTHER -> EntityOutcomes

(***************************************************************************)
(* The engine: Synchronizer.sync() runs on the main thread, every other    *)
(* entity's sync() on a worker thread of its parent's ThreadPoolExecutor.  *)
(*                                                                         *)
(* pc[n]:  "none"     not constructed yet                                  *)
(*         "new"      constructed by its parent's enumeration              *)
(*         "queued"   executor.submit(child.sync) done, no worker yet      *)
(*         "body"     in the subclass's sync(), before super().sync()      *)
(*         "submit"   at line 230-231, about to submit the children        *)
(*         "wait"     in the print-turn loop, lines 234-237                *)
(*         "flush"    in _flush_print_queue's loop, lines 216-217          *)
(*         "printed"  at line 219, about to set has_printed                *)
(*         "join"     in the loop over futures, lines 240-243              *)
(*         "inc"      at line 246, parent.child_to_print not read yet      *)
(*         "inc_w"    at line 246, parent.child_to_print read, not stored  *)
(*         "done"     sync() returned                                      *)
(*         "raised"   sync() raised                                        *)
(***************************************************************************)
IsTree(f) ==
    /\ f[Root] = None
    /\ \A n \in Node \ {Root} : f[n] \in Node /\ f[n] < n

IsRemoteLeaf(f, n) == \A c \in Node : f[c] # n

\* every entity is a container, except that one remote leaf may be of class k
OneLeafOfKind(f, ks) ==
    { [n \in Node |-> "entity"] } \cup
    { [n \in Node |-> IF n = s THEN k ELSE "entity"] :
        s \in { m \in Node \ {Root} : IsRemoteLeaf(f, m) }, k \in ks }

\* the branches of one course: two Modules, the course's Files folder and a
\* folder inside it
FileId == 0 .. MaxFile
Modules == {"module_a", "module_b"}
Folders == {"files", "sub_folder"}
Branch == Modules \cup Folders

\* reorganize is not being called
ReorganizeIdle ==
    /\ items = <<>>
    /\ outer_scope_files = <<>>
    /\ sub_folders = <<>>
    /\ current_sub_folder_index = -1
    /\ item_i = 0

\* no entity is enumerating its children on its own
EnumIdle ==
    /\ handler = "none"
    /\ settings = <<>>
    /\ api = <<>>
    /\ fields = <<>>
    /\ new_children = <<>>
    /\ e_pc = "none"
    /\ e_i = 0

\* no leaf is being synced run after run
PolicyIdle ==
    /\ leaf = "none"
    /\ remote = [content |-> <<>>]
    /\ platform = [sys |-> "linux", off |-> 0]
    /\ local = NoFile
    /\ shortcut = NoShortcut
    /\ log = <<>>

\* no course's branches are being enumerated
DedupIdle ==
    /\ avoid_duplicates = FALSE
    /\ listing = [b \in Branch |-> <<>>]
    /\ entities = <<>>
    /\ black_list = [b \in Branch |-> <<>>]
    /\ file_children = [b \in Branch |-> <<>>]
    /\ branch_pc = [b \in Branch |-> "none"]
    /\ branch_i = [b \in Branch |-> 0]
    /\ local_paths = {}

\* no entity tree is being synced
EngineIdle ==
    /\ remote_parent = [n \in Node |-> None]
    /\ max_workers = 1
    /\ kind = [n \in Node |-> "entity"]
    /\ ret = [n \in Node |-> [val |-> "None", at |-> 0, calls |-> 0]]
    /\ written = [n \in Node |-> FALSE]
    /\ pc = [n \in Node |-> "none"]
    /\ children = [n \in Node |-> <<>>]
    /\ print_queue = [n \in Node |-> <<>>]
    /\ has_printed = [n \in Node |-> FALSE]
    /\ child_to_print = [n \in Node |-> 0]
    /\ flush_i = [n \in Node |-> 0]
    /\ join_i = [n \in Node |-> 0]
    /\ tmp = [n \in Node |-> 0]
    /\ output = <<>>

InitEngine ==
    /\ PolicyIdle
    /\ DedupIdle
    /\ ReorganizeIdle
    /\ EnumIdle
    /\ max_workers \in 1 .. MaxWorkers
    /\ ret = [n \in Node |-> [val |-> "None", at |-> 0, calls |-> 0]]
    /\ written = [n \in Node |-> FALSE]
    /\ pc = [n \in Node |-> IF n = Root THEN "body" ELSE "none"]
    /\ children = [n \in Node |-> <<>>]
    /\ print_queue = [n \in Node |-> <<>>]
    /\ has_printed = [n \in Node |-> FALSE]
    /\ child_to_print = [n \in Node |-> 0]
    /\ flush_i = [n \in Node |-> 0]
    /\ join_i = [n \in Node |-> 0]
    /\ tmp = [n \in Node |-> 0]
    /\ output = <<>>

\* any hierarchy of containers, one of whose leaves may be a File
Init ==
    /\ remote_parent \in { f \in [Node -> Node \cup {None}] : IsTree(f) }
    /\ kind \in OneLeafOfKind(remote_parent, {"file"})
    /\ InitEngine

\* any hierarchy of containers
InitContainers ==
    /\ remote_parent \in { f \in [Node -> Node \cup {None}] : IsTree(f) }
    /\ kind = [n \in Node |-> "entity"]
    /\ InitEngine

\* the Synchronizer with its Courses, each selected or not, and what they hold
InitCourses ==
    /\ remote_parent \in { f \in [Node -> Node \cup {None}] : IsTree(f) }
    /\ kind = [n \in Node |-> IF remote_parent[n] = Root THEN "course" ELSE "entity"]
    /\ InitEngine

\* a Module, Page or Assignment (the root here) with its items, one of them a
\* LinkedFile or an ExternalUrl
InitLeaf ==
    /\ remote_parent = [n \in Node |-> IF n = Root THEN None ELSE Root]
    /\ kind \in OneLeafOfKind(remote_parent, {"linked_file", "external_url"})
    /\ InitEngine

\* the tasks of p's executor that hold one of its worker threads
Running(p) ==
    { c \in Range(children[p]) : pc[c] \notin {"new", "queued", "done", "raised"} }

\* the executor's work queue is first in, first out: n.sync is taken when no
\* sync submitted before it is still queued
NextQueued_AnyOrder(n) == TRUE
NextQueued(n) ==
    \A c \in Range(children[parent(n)]) : pc[c] = "queued" => n <= c

\* a worker thread of the parent's executor takes n.sync from the work queue
Start(n) ==
    /\ pc[n] = "queued"
    /\ Cardinality(Running(parent(n))) < max_workers
    /\ NextQueued(n)
    /\ pc' = [pc EXCEPT ![n] = "body"]
    /\ UNCHANGED <<policy_vars, dedup_vars, reorganize_vars, enum_vars>>
    /\ UNCHANGED <<remote_parent, max_workers, kind, ret, written, children, print_queue,
                   has_printed, child_to_print, flush_i, join_i, tmp, output>>

\* the entities n's sync body lists and constructs when it returned r: none when
\* Course.sync took the branch of lines 143-146
Enumerated_Always(n, r) == RemoteChildren(n)
Enumerated(n, r) ==
    IF kind[n] = "course" /\ r.at = 146 THEN <<>> ELSE RemoteChildren(n)

\* the subclass's sync() up to super().sync(): own lines buffered, children
\* constructed, the leaf's artifact written; or an exception out of the body,
\* which may leave any prefix of the children constructed
Body(n) ==
    /\ pc[n] = "body"
    /\ kind[n] \notin OwnerKinds
    /\ \E r \in SyncBody(kind[n]) :
         \E k \in 0 .. Len(Enumerated(n, r)) :
            /\ ~r.raised => k = Len(Enumerated(n, r))
            /\ children' = [children EXCEPT ![n] = SubSeq(Enumerated(n, r), 1, k)]
            /\ pc' = [c \in Node |->
                        IF c = n THEN (IF r.raised THEN "raised" ELSE "submit")
                        ELSE IF \E i \in 1 .. k : Enumerated(n, r)[i] = c THEN "new"
                        ELSE pc[c]]
            /\ print_queue' = [print_queue EXCEPT ![n] = IF r.raised THEN <<>> ELSE r.lines]
            /\ ret' = [ret EXCEPT ![n] = [val |-> r.ret, at |-> r.at, calls |-> r.calls]]
            /\ written' = [written EXCEPT ![n] = r.write]
    /\ UNCHANGED <<policy_vars, dedup_vars, reorganize_vars, enum_vars>>
    /\ UNCHANGED <<remote_parent, max_workers, kind, has_printed, child_to_print,
                   flush_i, join_i, tmp, output>>

\* the steps of the sync() of a Page or an Assignment, in the order of the code:
\* the children are enumerated and constructed (Page.download_linked_files,
\* Assignment.add_files), the entity's own HTML file is written (Page.download,
\* Assignment.make_html), then super().sync() submits the children and goes to
\* wait for the print turn
OwnerSteps_DispatchFirst == <<"body", "submit", "self", "wait">>
OwnerSteps == <<"body", "self", "submit", "wait">>

StepAfter(step) == OwnerSteps[IndexIn(OwnerSteps, step) + 2]

\* lines 230-231: executor = ThreadPoolExecutor(); futures = [submit(child.sync) ...]
Submit(n) ==
    /\ pc[n] = "submit"
    /\ pc' = [c \in Node |->
                IF c = n THEN (IF kind[n] \in OwnerKinds THEN StepAfter("submit") ELSE "wait")
                ELSE IF c \in Range(children[n]) THEN "queued"
                ELSE pc[c]]
    /\ UNCHANGED <<policy_vars, dedup_vars, reorganize_vars, enum_vars>>
    /\ UNCHANGED <<remote_parent, max_workers, kind, ret, written, children, print_queue,
                   has_printed, child_to_print, flush_i, join_i, tmp, output>>

MyTurn_OneEarly(n) ==
    IF parent(n) = None THEN TRUE
    ELSE /\ has_printed[parent(n)]
         /\ IndexIn(children[parent(n)], n) - child_to_print[parent(n)] \in {0, 1}

MyTurn_ParentFlushing(n) ==
    IF parent(n) = None THEN TRUE
    ELSE /\ has_printed[parent(n)] \/ pc[parent(n)] \in {"flush", "printed"}
         /\ child_to_print[parent(n)] < Len(children[parent(n)])
         /\ children[parent(n)][child_to_print[parent(n)] + 1] = n

MyTurn_IgnoreParentFlush(n) ==
    IF parent(n) = None THEN TRUE
    ELSE /\ child_to_print[parent(n)] < Len(children[parent(n)])
         /\ children[parent(n)][child_to_print[parent(n)] + 1] = n

MyTurn_IgnoreIndex(n) ==
    IF parent(n) = None THEN TRUE ELSE has_printed[parent(n)]

\* the condition that ends the loop of lines 234-237
MyTurn(n) ==
    IF parent(n) = None THEN TRUE
    ELSE /\ has_printed[parent(n)]
         /\ child_to_print[parent(n)] < Len(children[parent(n)])
         /\ children[parent(n)][child_to_print[parent(n)] + 1] = n

\* has_printed is set and the index is past the end: children[...] raises IndexError
TurnIndexError(n) ==
    IF parent(n) = None THEN FALSE
    ELSE /\ has_printed[parent(n)]
         /\ child_to_print[parent(n)] >= Len(children[parent(n)])

WaitTurn(n) ==
    /\ pc[n] = "wait"
    /\ IF MyTurn(n) THEN TRUE ELSE TurnIndexError(n)
    /\ pc' = [pc EXCEPT ![n] = IF MyTurn(n) THEN "flush" ELSE "raised"]
    /\ flush_i' = [flush_i EXCEPT ![n] = 0]
    /\ UNCHANGED <<policy_vars, dedup_vars, reorganize_vars, enum_vars>>
    /\ UNCHANGED <<remote_parent, max_workers, kind, ret, written, children, print_queue,
                   has_printed, child_to_print, join_i, tmp, output>>

\* lines 216-217: one print(...) of the loop, or the loop's end
PrintLine(n) ==
    /\ pc[n] = "flush"
    /\ IF flush_i[n] < Len(print_queue[n])
       THEN /\ output' = Append(output, <<n, print_queue[n][flush_i[n] + 1]>>)
            /\ flush_i' = [flush_i EXCEPT ![n] = @ + 1]
            /\ pc' = pc
       ELSE /\ pc' = [pc EXCEPT ![n] = "printed"]
            /\ UNCHANGED <<output, flush_i>>
    /\ UNCHANGED <<policy_vars, dedup_vars, reorganize_vars, enum_vars>>
    /\ UNCHANGED <<remote_parent, max_workers, kind, ret, written, children, print_queue,
                   has_printed, child_to_print, join_i, tmp>>

\* lines 219-220: has_printed = True; print_queue.clear()
MarkPrinted(n) ==
    /\ pc[n] = "printed"
    /\ has_printed' = [has_printed EXCEPT ![n] = TRUE]
    /\ print_queue' = [print_queue EXCEPT ![n] = <<>>]
    /\ join_i' = [join_i EXCEPT ![n] = 0]
    /\ pc' = [pc EXCEPT ![n] = "join"]
    /\ UNCHANGED <<policy_vars, dedup_vars, reorganize_vars, enum_vars>>
    /\ UNCHANGED <<remote_parent, max_workers, kind, ret, written, children,
                   child_to_print, flush_i, tmp, output>>

\* future.result() of child c's future returns only once c.sync() has ended
FutureDone_NoWait(c) == TRUE
FutureDone(c) == pc[c] \in {"done", "raised"}

\* what future.result() does once the future is done: re-raise or return
FutureResult_Swallow(c) == "return"
FutureResult(c) == IF pc[c] = "raised" THEN "raise" ELSE "return"

\* lines 240-243: future.result() of the next child, in declared order; after
\* the last one executor.shutdown() finds every job done
Join(n) ==
    /\ pc[n] = "join"
    /\ IF join_i[n] < Len(children[n])
       THEN LET c == children[n][join_i[n] + 1] IN
            /\ FutureDone(c)
            /\ IF FutureResult(c) = "raise"
               THEN pc' = [pc EXCEPT ![n] = "raised"] /\ join_i' = join_i
               ELSE pc' = pc /\ join_i' = [join_i EXCEPT ![n] = @ + 1]
       ELSE /\ pc' = [pc EXCEPT ![n] = IF parent(n) = None THEN "done" ELSE "inc"]
            /\ join_i' = join_i
    /\ UNCHANGED <<policy_vars, dedup_vars, reorganize_vars, enum_vars>>
    /\ UNCHANGED <<remote_parent, max_workers, kind, ret, written, children, print_queue,
                   has_printed, child_to_print, flush_i, tmp, output>>

\* line 246, first half: read self.parent.child_to_print
IncRead(n) ==
    /\ pc[n] = "inc"
    /\ tmp' = [tmp EXCEPT ![n] = child_to_print[parent(n)]]
    /\ pc' = [pc EXCEPT ![n] = "inc_w"]
    /\ UNCHANGED <<policy_vars, dedup_vars, reorganize_vars, enum_vars>>
    /\ UNCHANGED <<remote_parent, max_workers, kind, ret, written, children, print_queue,
                   has_printed, child_to_print, flush_i, join_i, output>>

\* line 246, second half: store the sum
IncWrite(n) ==
    /\ pc[n] = "inc_w"
    /\ child_to_print' = [child_to_print EXCEPT ![parent(n)] = tmp[n] + 1]
    /\ pc' = [pc EXCEPT ![n] = "done"]
    /\ UNCHANGED <<policy_vars, dedup_vars, reorganize_vars, enum_vars>>
    /\ UNCHANGED <<remote_parent, max_workers, kind, ret, written, children, print_queue,
                   has_printed, flush_i, join_i, tmp, output>>

Next ==
    \E n \in Node :
        \/ Start(n)
        \/ Body(n)
        \/ Submit(n)
        \/ WaitTurn(n)
        \/ PrintLine(n)
        \/ MarkPrinted(n)
        \/ Join(n)
        \/ IncRead(n)
        \/ IncWrite(n)

Spec == Init /\ [][Next]_vars

LeafSpec == InitLeaf /\ [][Next]_vars

CourseSpec == InitCourses /\ [][Next]_vars

\* one thread's steps
Thread(n) ==
    \/ Start(n) \/ Body(n) \/ Submit(n) \/ WaitTurn(n) \/ PrintLine(n)
    \/ MarkPrinted(n) \/ Join(n) \/ IncRead(n) \/ IncWrite(n)

\* worker threads and the main thread are scheduled by the operating system:
\* a thread that can take a step eventually takes one
FairSpec == InitContainers /\ [][Next]_vars /\ \A n \in Node : WF_vars(Thread(n))

(***************************************************************************)
(* A Page or an Assignment inside the engine.  Its sync body is taken in   *)
(* two steps: the enumeration of its children, then the write of its own   *)
(* HTML file (pc "self").                                                  *)
(***************************************************************************)
\* a hierarchy of containers, one of them a Page or an Assignment
InitOwner ==
    /\ remote_parent \in { f \in [Node -> Node \cup {None}] : IsTree(f) }
    /\ kind \in { [n \in Node |-> IF n = s THEN k ELSE "entity"] :
                    s \in Node \ {Root}, k \in OwnerKinds }
    /\ InitEngine

\* Page.download lines 108-118 (download_linked_files), Assignment.sync line 133
\* (add_files): the children are constructed; a failing API call raises and may
\* leave any prefix of them constructed
Enumerate(n) ==
    /\ pc[n] = "body"
    /\ kind[n] \in OwnerKinds
    /\ \E fault \in BOOLEAN :
         \E k \in 0 .. Len(RemoteChildren(n)) :
            /\ ~fault => k = Len(RemoteChildren(n))
            /\ children' = [children EXCEPT ![n] = SubSeq(RemoteChildren(n), 1, k)]
            /\ pc' = [c \in Node |->
                        IF c = n THEN (IF fault THEN "raised" ELSE StepAfter("body"))
                        ELSE IF \E i \in 1 .. k : RemoteChildren(n)[i] = c THEN "new"
                        ELSE pc[c]]
    /\ UNCHANGED <<policy_vars, dedup_vars, reorganize_vars, enum_vars>>
    /\ UNCHANGED <<remote_parent, max_workers, kind, ret, written, print_queue, has_printed,
                   child_to_print, flush_i, join_i, tmp, output>>

\* Page.download lines 120-144 and Page.sync line 153, Assignment.make_html: the
\* entity's own HTML file is written (or found as it should be) and its lines are
\* buffered
SyncSelf(n) ==
    /\ pc[n] = "self"
    /\ \E r \in SyncBody(kind[n]) :
          /\ print_queue' = [print_queue EXCEPT ![n] = r.lines]
          /\ ret' = [ret EXCEPT ![n] = [val |-> r.ret, at |-> r.at, calls |-> r.calls]]
          /\ written' = [written EXCEPT ![n] = r.write]
    /\ pc' = [pc EXCEPT ![n] = StepAfter("self")]
    /\ UNCHANGED <<policy_vars, dedup_vars, reorganize_vars, enum_vars>>
    /\ UNCHANGED <<remote_parent, max_workers, kind, children, has_printed, child_to_print,
                   flush_i, join_i, tmp, output>>

NextOwner ==
    \E n \in Node :
        \/ Start(n)
        \/ Body(n)
        \/ Enumerate(n)
        \/ SyncSelf(n)
        \/ Submit(n)
        \/ WaitTurn(n)
        \/ PrintLine(n)
        \/ MarkPrinted(n)
        \/ Join(n)
        \/ IncRead(n)
        \/ IncWrite(n)

OwnerSpec == InitOwner /\ [][NextOwner]_vars

(***************************************************************************)
(* One leaf entity synced twice in a row: the second run finds the remote  *)
(* side as the first run found it, and the filesystem as the first run     *)
(* left it.  The first run starts from any file at the leaf's path.        *)
(***************************************************************************)
LeafClasses == {"file", "linked_file", "external_url", "page", "assignment"}

\* the files a leaf that does not look at timezones can find at its path
MirrorFiles == {NoFile} \cup [exists : {TRUE}, data : Data, mtime : Time]

InitPolicy ==
    /\ \/ /\ leaf = "file"
          /\ platform \in [sys : {"linux"}, off : UtcOffset]
          /\ remote \in [locked : BOOLEAN, modified_at : Time, content : Data]
          /\ local \in LocalFiles
          /\ shortcut = NoShortcut
       \/ /\ leaf = "linked_file"
          /\ platform \in [sys : {"linux"}, off : {0}]
          /\ remote \in [resp : {"ok", "non200", "exc"}, content : Data]
          /\ local \in MirrorFiles
          /\ shortcut = NoShortcut
       \/ /\ leaf = "external_url"
          /\ platform \in [sys : Platform, off : {0}]
          /\ remote \in { r \in [url : Url, blacklisted : BOOLEAN, head : {"ok", "exc"},
                                 get : {"ok", "err", "exc"}, lm : Time \cup {None},
                                 content : Data] :
                            \* no request is made for a blacklisted URL, and a
                            \* request that fails brings no content
                            /\ r.blacklisted => (r.head = "ok" /\ r.get = "ok" /\ r.lm = None)
                            /\ (r.blacklisted \/ r.get # "ok") => r.content = <<>> }
          /\ local \in MirrorFiles
          /\ shortcut \in ShortcutFiles(platform.sys)
       \/ /\ leaf \in {"page", "assignment"}
          /\ platform \in [sys : Platform, off : {0}]
          /\ remote \in [content : Text]
          /\ local \in TextFiles(platform.sys)
          /\ shortcut = NoShortcut
    /\ log = <<>>
    /\ EngineIdle
    /\ DedupIdle
    /\ ReorganizeIdle
    /\ EnumIdle

\* the time of a write: not before any time the remote side reports
Now == MaxTime

\* what one sync of the leaf did: r is what its body returned, sc the number of
\* shortcut files it wrote
Entry(r, sc) ==
    [before |-> local, after |-> r.file, ret |-> r.ret, at |-> r.at, lines |-> r.lines,
     calls |-> r.calls, raised |-> r.raised,
     writes |-> sc + (IF r.write THEN 1 ELSE 0)]

\* File.sync
SyncFile ==
    /\ leaf = "file"
    /\ Len(log) < 2
    /\ LET r == File_sync([locked |-> remote.locked, local |-> local,
                           modified_at |-> remote.modified_at,
                           payload |-> remote.content, off |-> platform.off])
       IN  /\ local' = r.file
           /\ log' = Append(log, Entry(r, 0))
    /\ UNCHANGED <<leaf, remote, platform, shortcut, engine_vars, dedup_vars, reorganize_vars, enum_vars>>

\* LinkedFile.sync
SyncLinkedFile ==
    /\ leaf = "linked_file"
    /\ Len(log) < 2
    /\ LET r == LinkedFile_sync([local |-> local, resp |-> remote.resp,
                                 content |-> remote.content, now |-> Now])
       IN  /\ local' = r.file
           /\ log' = Append(log, Entry(r, 0))
    /\ UNCHANGED <<leaf, remote, platform, shortcut, engine_vars, dedup_vars, reorganize_vars, enum_vars>>

\* ExternalUrl.sync: the shortcut, then the mirrored content
SyncExternalUrl ==
    /\ leaf = "external_url"
    /\ Len(log) < 2
    /\ LET sc == make_url_shortcut([sys |-> platform.sys, url |-> remote.url,
                                    shortcut |-> shortcut, now |-> Now])
           dl == download_url_content([blacklisted |-> remote.blacklisted,
                                       local |-> local, head |-> remote.head,
                                       get |-> remote.get, lm |-> remote.lm,
                                       content |-> remote.content, now |-> Now])
           r == ExternalUrl_report(sc, dl)
       IN  /\ shortcut' = r.shortcut
           /\ local' = r.file
           /\ log' = Append(log, Entry(r, IF sc.write THEN 1 ELSE 0)
                                  @@ [shortcut_before |-> shortcut,
                                      shortcut_after |-> sc.file,
                                      shortcut_ret |-> sc.ret,
                                      shortcut_write |-> sc.write])
    /\ UNCHANGED <<leaf, remote, platform, engine_vars, dedup_vars, reorganize_vars, enum_vars>>

\* Page.sync
SyncPage ==
    /\ leaf = "page"
    /\ Len(log) < 2
    /\ LET r == Page_sync([local |-> local, new_content |-> remote.content,
                           sys |-> platform.sys, now |-> Now])
       IN  /\ local' = r.file
           /\ log' = Append(log, Entry(r, 0))
    /\ UNCHANGED <<leaf, remote, platform, shortcut, engine_vars, dedup_vars, reorganize_vars, enum_vars>>

\* Assignment.sync, as far as its own HTML file goes
SyncAssignment ==
    /\ leaf = "assignment"
    /\ Len(log) < 2
    /\ LET r == make_html([local |-> local, new_content |-> remote.content,
                           sys |-> platform.sys, now |-> Now])
       IN  /\ local' = r.file
           /\ log' = Append(log, Entry(r, 0))
    /\ UNCHANGED <<leaf, remote, platform, shortcut, engine_vars, dedup_vars, reorganize_vars, enum_vars>>

NextPolicy ==
    \/ SyncFile
    \/ SyncLinkedFile
    \/ SyncExternalUrl
    \/ SyncPage
    \/ SyncAssignment

PolicySpec == InitPolicy /\ [][NextPolicy]_vars

(***************************************************************************)
(* One sync of a leaf cut short by a KeyboardInterrupt that arrives while  *)
(* the leaf writes its file: cut is the number of bytes (characters) that  *)
(* reached the file before the interrupt; with all of them written the     *)
(* interrupt arrives after the write (in File.download, during os.utime).  *)
(***************************************************************************)
\* what an interrupted open(path, "wb").write(data) leaves on disk
PartialFile(data, cut, now) == WriteFile(SubSeq(data, 1, cut), now)

\* what an interrupted shortcut write leaves on disk
PartialShortcut(now) == [exists |-> TRUE, data |-> <<"partial", "">>, mtime |-> now]

\* what a sync that re-raises the interrupt leaves: r is what the sync would have
\* returned, f the file at the path being written
Interrupted(r, line, f) ==
    [r EXCEPT !.ret = "KeyboardInterrupt", !.at = line, !.file = f, !.raised = TRUE]

\* file.py lines 84-90: except KeyboardInterrupt: os.remove(path) if it exists; raise
Rollback_Keep(f) == f
Rollback(f) == NoFile

\* File.sync interrupted at line 78 or 82
InterruptFile ==
    /\ leaf = "file"
    /\ log = <<>>
    /\ LET inp == [locked |-> remote.locked, local |-> local,
                   modified_at |-> remote.modified_at,
                   payload |-> remote.content, off |-> platform.off]
           r == File_sync(inp)
       IN  /\ r.write
           /\ \E cut \in 0 .. Len(remote.content) :
                LET i == Interrupted([r EXCEPT !.lines = <<"DOWNLOADING">>], 90,
                                     Rollback(PartialFile(remote.content, cut, Now)))
                IN  /\ local' = i.file
                    /\ log' = Append(log, Entry(i, 0))
    /\ UNCHANGED <<leaf, remote, platform, shortcut, engine_vars, dedup_vars, reorganize_vars, enum_vars>>

\* LinkedFile.sync interrupted at line 102: no handler
InterruptLinkedFile ==
    /\ leaf = "linked_file"
    /\ log = <<>>
    /\ LET r == LinkedFile_download([local |-> local, resp |-> remote.resp,
                                     content |-> remote.content, now |-> Now])
       IN  /\ r.write
           /\ \E cut \in 0 .. Len(remote.content) :
                LET i == Interrupted(r, 102, PartialFile(remote.content, cut, Now))
                IN  /\ local' = i.file
                    /\ log' = Append(log, Entry(i, 0))
    /\ UNCHANGED <<leaf, remote, platform, shortcut, engine_vars, dedup_vars, reorganize_vars, enum_vars>>

\* ExternalUrl.sync interrupted in make_url_shortcut at line 82, or in
\* download_url_content at line 155 or 158: no handler (except Exception does not
\* catch KeyboardInterrupt)
InterruptExternalUrl ==
    /\ leaf = "external_url"
    /\ log = <<>>
    /\ LET sc == make_url_shortcut([sys |-> platform.sys, url |-> remote.url,
                                    shortcut |-> shortcut, now |-> Now])
           dl == download_url_content([blacklisted |-> remote.blacklisted,
                                       local |-> local, head |-> remote.head,
                                       get |-> remote.get, lm |-> remote.lm,
                                       content |-> remote.content, now |-> Now])
           r == ExternalUrl_report(sc, dl)
       IN  \/ /\ sc.write
              /\ shortcut' = PartialShortcut(Now)
              /\ local' = local
              /\ log' = Append(log, Entry(Interrupted([r EXCEPT !.lines = <<>>,
                                                                !.calls = 0],
                                                      82, local), 1))
           \/ /\ dl.write
              /\ \E cut \in 0 .. Len(remote.content) :
                   LET i == Interrupted([r EXCEPT !.lines =
                                             IF sc.write THEN <<"URL UPDATED">> ELSE <<>>],
                                        IF local.exists THEN 155 ELSE 158,
                                        PartialFile(remote.content, cut, Now))
                   IN  /\ shortcut' = r.shortcut
                       /\ local' = i.file
                       /\ log' = Append(log, Entry(i, IF sc.write THEN 1 ELSE 0))
    /\ UNCHANGED <<leaf, remote, platform, engine_vars, dedup_vars, reorganize_vars, enum_vars>>

\* Page.sync interrupted at line 142: no handler
InterruptPage ==
    /\ leaf = "page"
    /\ log = <<>>
    /\ LET r == Page_download([local |-> local, new_content |-> remote.content,
                               sys |-> platform.sys, now |-> Now])
       IN  /\ r.write
           /\ \E cut \in 0 .. Len(r.file.data) :
                LET i == Interrupted(r, 142, PartialFile(r.file.data, cut, Now))
                IN  /\ local' = i.file
                    /\ log' = Append(log, Entry(i, 0))
    /\ UNCHANGED <<leaf, remote, platform, shortcut, engine_vars, dedup_vars, reorganize_vars, enum_vars>>

\* Assignment.sync interrupted in make_html at lines 73-78: no handler
InterruptAssignment ==
    /\ leaf = "assignment"
    /\ log = <<>>
    /\ LET r == make_html([local |-> local, new_content |-> remote.content,
                           sys |-> platform.sys, now |-> Now])
       IN  /\ r.write
           /\ \E cut \in 0 .. Len(r.file.data) :
                LET i == Interrupted(r, 78, PartialFile(r.file.data, cut, Now))
                IN  /\ local' = i.file
                    /\ log' = Append(log, Entry(i, 0))
    /\ UNCHANGED <<leaf, remote, platform, shortcut, engine_vars, dedup_vars, reorganize_vars, enum_vars>>

NextInterrupt ==
    \/ InterruptFile
    \/ InterruptLinkedFile
    \/ InterruptExternalUrl
    \/ InterruptPage
    \/ InterruptAssignment

InterruptSpec == InitPolicy /\ [][NextInterrupt]_vars

(***************************************************************************)
(* helpers.reorganize: one turn of its loop per step.  An item is its      *)
(* type and indent; the output lists hold the items by their position in   *)
(* the input (the code appends the item objects themselves).               *)
(***************************************************************************)
ItemTypes == {"SubHeader", "File"}
Item == [type : ItemTypes, indent : 0 .. MaxIndent]
ItemLists == UNION { [1 .. k -> Item] : k \in 0 .. MaxItems }

Min(S) == CHOOSE x \in S : \A y \in S : x <= y

\* line 54: min([items[index]["indent"] for index in range(len(items))])
outer_indent == Min({ items[i].indent : i \in 1 .. Len(items) })

\* line 66: item_indent == outer_indent or current_sub_folder_index == -1
InOuterScope_NoHeaderYet(item_indent) == current_sub_folder_index = -1
InOuterScope(item_indent) ==
    item_indent = outer_indent \/ current_sub_folder_index = -1

InitReorganize ==
    /\ items \in ItemLists
    /\ outer_scope_files = <<>>
    /\ sub_folders = <<>>
    /\ current_sub_folder_index = -1
    /\ item_i = 0
    /\ EngineIdle
    /\ PolicyIdle
    /\ DedupIdle
    /\ EnumIdle

\* lines 58-71, one item
ReorganizeStep ==
    /\ item_i < Len(items)
    /\ LET item == items[item_i + 1] IN
       IF item.type = "SubHeader"
       THEN /\ current_sub_folder_index' = current_sub_folder_index + 1
            /\ sub_folders' = Append(sub_folders, <<item_i + 1>>)
            /\ UNCHANGED outer_scope_files
       ELSE IF InOuterScope(item.indent)
       THEN /\ outer_scope_files' = Append(outer_scope_files, item_i + 1)
            /\ UNCHANGED <<sub_folders, current_sub_folder_index>>
       ELSE /\ sub_folders' = [sub_folders EXCEPT ![current_sub_folder_index + 1] =
                                  Append(@, item_i + 1)]
            /\ UNCHANGED <<outer_scope_files, current_sub_folder_index>>
    /\ item_i' = item_i + 1
    /\ UNCHANGED <<items, engine_vars, policy_vars, dedup_vars, enum_vars>>

ReorganizeSpec == InitReorganize /\ [][ReorganizeStep]_vars

(***************************************************************************)
(* The duplicate registry.  The Modules and the Files folder of one course *)
(* are children of the Course, so their sync() run concurrently, each on   *)
(* its own worker thread; the folder inside the Files folder is synced     *)
(* once the Files folder has enumerated its children.                      *)
(*                                                                         *)
(* branch_pc[b]: "none"            not constructed yet                     *)
(*               "items"           a Module in the loop of add_items       *)
(*               "black_list"      a Folder at lines 107-110 of sync       *)
(*               "add_files"       a Folder in the loop of add_files       *)
(*               "add_sub_folders" a Folder in add_sub_folders             *)
(*               "done"            children built and synced               *)
(***************************************************************************)
\* the remote lists a set of files under each branch; a file lies in one folder
Listings ==
    { l \in [Branch -> { SortedSeq(S) : S \in SUBSET FileId }] :
        Range(l["files"]) \cap Range(l["sub_folder"]) = {} }

InitDedup ==
    /\ avoid_duplicates \in BOOLEAN
    /\ listing \in Listings
    /\ entities = <<>>
    /\ black_list = [b \in Branch |-> <<>>]
    /\ file_children = [b \in Branch |-> <<>>]
    /\ branch_pc = [b \in Branch |->
                      IF b \in Modules THEN "items"
                      ELSE IF b = "files" THEN "black_list" ELSE "none"]
    /\ branch_i = [b \in Branch |-> 0]
    /\ local_paths = {}
    /\ EngineIdle
    /\ PolicyIdle
    /\ ReorganizeIdle
    /\ EnumIdle

\* Synchronizer.add_entity
add_entity_Replace(registry, id) == <<id>>
add_entity(registry, id) == Append(registry, id)

\* super().sync() of branch b: its File children are synced, each writes the file
\* at its own sync_path, below the folder of b
SyncFiles(b) == local_paths \cup { <<b, id>> : id \in Range(file_children[b]) }

\* Module.add_items, one File item: File(detailed_file_info, self) registers itself
\* in the course's registry, then add_child; after the last item, super().sync()
Module_add_file(m) ==
    /\ m \in Modules
    /\ branch_pc[m] = "items"
    /\ IF branch_i[m] < Len(listing[m])
       THEN LET id == listing[m][branch_i[m] + 1] IN
            /\ entities' = add_entity(entities, id)
            /\ file_children' = [file_children EXCEPT ![m] = Append(@, id)]
            /\ branch_i' = [branch_i EXCEPT ![m] = @ + 1]
            /\ UNCHANGED <<branch_pc, local_paths>>
       ELSE /\ branch_pc' = [branch_pc EXCEPT ![m] = "done"]
            /\ local_paths' = SyncFiles(m)
            /\ UNCHANGED <<entities, file_children, branch_i>>
    /\ UNCHANGED <<avoid_duplicates, listing, black_list>>
    /\ UNCHANGED <<engine_vars, policy_vars, reorganize_vars, enum_vars>>

\* Folder.initialize_black_list: the ids of the File entries the registry holds now
initialize_black_list == entities

\* line 107: not self.black_list and self.settings.avoid_duplicates
NeedsBlackList_Always(bl, avoid) == avoid
NeedsBlackList(bl, avoid) == bl = <<>> /\ avoid

\* Folder.sync, lines 107-110
Folder_black_list(f) ==
    /\ f \in Folders
    /\ branch_pc[f] = "black_list"
    /\ black_list' = [black_list EXCEPT ![f] =
                        IF NeedsBlackList(black_list[f], avoid_duplicates)
                        THEN initialize_black_list
                        ELSE IF ~avoid_duplicates THEN <<>> ELSE @]
    /\ branch_pc' = [branch_pc EXCEPT ![f] = "add_files"]
    /\ branch_i' = [branch_i EXCEPT ![f] = 0]
    /\ UNCHANGED <<avoid_duplicates, listing, entities, file_children, local_paths>>
    /\ UNCHANGED <<engine_vars, policy_vars, reorganize_vars, enum_vars>>

\* Folder.add_files, one turn of the loop, or its end
Folder_add_files(f) ==
    /\ f \in Folders
    /\ branch_pc[f] = "add_files"
    /\ IF branch_i[f] < Len(listing[f])
       THEN LET id == listing[f][branch_i[f] + 1] IN
            /\ file_children' = [file_children EXCEPT ![f] =
                                   IF id \in Range(black_list[f]) THEN @
                                   ELSE Append(@, id)]
            /\ branch_i' = [branch_i EXCEPT ![f] = @ + 1]
            /\ branch_pc' = branch_pc
       ELSE /\ branch_pc' = [branch_pc EXCEPT ![f] = "add_sub_folders"]
            /\ UNCHANGED <<file_children, branch_i>>
    /\ UNCHANGED <<avoid_duplicates, listing, entities, black_list, local_paths>>
    /\ UNCHANGED <<engine_vars, policy_vars, reorganize_vars, enum_vars>>

\* Folder.add_sub_folders, then super().sync(): the Files folder hands its
\* black_list to the folder inside it, whose sync is dispatched with the Files
\* folder's other children
Folder_add_sub_folders(f) ==
    /\ f \in Folders
    /\ branch_pc[f] = "add_sub_folders"
    /\ IF f = "files"
       THEN /\ black_list' = [black_list EXCEPT !["sub_folder"] = black_list["files"]]
            /\ branch_pc' = [branch_pc EXCEPT !["files"] = "done",
                                              !["sub_folder"] = "black_list"]
       ELSE /\ black_list' = black_list
            /\ branch_pc' = [branch_pc EXCEPT ![f] = "done"]
    /\ local_paths' = SyncFiles(f)
    /\ UNCHANGED <<avoid_duplicates, listing, entities, file_children, branch_i>>
    /\ UNCHANGED <<engine_vars, policy_vars, reorganize_vars, enum_vars>>

NextDedup ==
    \E b \in Branch :
        \/ Module_add_file(b)
        \/ Folder_black_list(b)
        \/ Folder_add_files(b)
        \/ Folder_add_sub_folders(b)

DedupSpec == InitDedup /\ [][NextDedup]_vars

(***************************************************************************)
(* Properties of the engine.                                               *)
(***************************************************************************)
RECURSIVE Flatten(_)
Flatten(ss) == IF ss = <<>> THEN <<>> ELSE Head(ss) \o Flatten(Tail(ss))

\* depth-first pre-order of the remote hierarchy below n, children in declared order
RECURSIVE Preorder(_)
Preorder(n) ==
    <<n>> \o Flatten([i \in 1 .. Len(RemoteChildren(n)) |-> Preorder(RemoteChildren(n)[i])])

RECURSIVE Collapse(_)
Collapse(s) ==
    IF Len(s) <= 1 THEN s
    ELSE IF s[1] = s[2] THEN Collapse(Tail(s))
    ELSE <<s[1]>> \o Collapse(Tail(s))

IsPrefix(s, t) == Len(s) <= Len(t) /\ \A i \in 1 .. Len(s) : s[i] = t[i]

\* the entities whose blocks were flushed, in the order of the flushes
OutBlocks == Collapse([i \in 1 .. Len(output) |-> output[i][1]])

Descendants(n) == Range(Preorder(n)) \ {n}

AnyRaised == \E n \in Node : pc[n] = "raised"

\* n's own sync body raised (it never reached its flush)
Failed(n) == pc[n] = "raised" /\ ~has_printed[n]

Rank(n) == IndexIn(Preorder(Root), n)

\* C1: when no sync raises, whatever the interleaving of the children's syncs, the
\* flushed blocks are always an initial part of the depth-first pre-order of the
\* tree in declared child order, and the whole pre-order once the root's sync returns
C1_PreorderOutput ==
    ~AnyRaised =>
        /\ IsPrefix(OutBlocks, Preorder(Root))
        /\ pc[Root] = "done" => OutBlocks = Preorder(Root)

\* the root's sync returned on a tree whose pre-order differs from the order of
\* construction, with at least two workers per executor
C1_Witness ==
    /\ pc[Root] = "done"
    /\ max_workers >= 2
    /\ Preorder(Root) # SortedSeq(Node)
    /\ OutBlocks = Preorder(Root)

\* C2: a node that has left the join of its futures (it is about to increment its
\* parent's counter, or its sync has returned) has every descendant's sync returned
C2_DoneAfterSubtree ==
    \A n \in Node :
        pc[n] \in {"inc", "inc_w", "done"} => \A d \in Descendants(n) : pc[d] = "done"

C2_Witness ==
    \E n \in Node \ {Root} :
        /\ pc[n] = "done"
        /\ Cardinality(Descendants(n)) >= 2
        /\ \A d \in Descendants(n) : pc[d] = "done"

\* no thread can take a step any more
Quiescent == ~ENABLED Next

\* C3: after a sync has raised, the run ends with no worker left in the print-turn loop
C3_NoWorkerStuck ==
    (AnyRaised /\ Quiescent) => \A n \in Node : pc[n] # "wait"

\* C4 (safety part): a node that re-raised from a child's future had joined every
\* child declared before it, each of them returned and flushed
C4_JoinedEarlier ==
    \A n \in Node :
        (pc[n] = "raised" /\ has_printed[n]) =>
            /\ join_i[n] < Len(children[n])
            /\ pc[children[n][join_i[n] + 1]] = "raised"
            /\ \A j \in 1 .. join_i[n] :
                 pc[children[n][j]] = "done" /\ has_printed[children[n][j]]

\* C4: once any sync has raised, the root's sync eventually raises, every ancestor
\* having first joined the children declared before the failing branch
C4_ExceptionSurfaces ==
    /\ [] C4_JoinedEarlier
    /\ AnyRaised ~> (pc[Root] = "raised")

C4_Witness ==
    /\ pc[Root] = "raised"
    /\ join_i[Root] >= 1
    /\ \E n \in Node : Failed(n) /\ parent(n) # Root

\* C5: when a sync has raised, the flushed blocks are an initial part of the
\* pre-order, and neither a failing node nor any node after it in the pre-order
\* has written a line
C5_FailurePrefix ==
    AnyRaised =>
        /\ IsPrefix(OutBlocks, Preorder(Root))
        /\ \A f \in Node : Failed(f) =>
             \A i \in 1 .. Len(output) : Rank(output[i][1]) < Rank(f)

C5_Witness ==
    \E f \in Node, m \in Node :
        /\ Failed(f)
        /\ Rank(m) > Rank(f)
        /\ pc[m] = "wait"
        /\ Len(OutBlocks) >= 2

(***************************************************************************)
(* Properties of the leaf entities inside the engine.                      *)
(***************************************************************************)
\* every line entity n has buffered or written so far
Lines(n) ==
    Range(print_queue[n]) \cup { output[i][2] : i \in { j \in 1 .. Len(output) : output[j][1] = n } }

\* the run has ended with every sync returned and every entity flushed
AllDone == \A m \in Node : pc[m] = "done" /\ has_printed[m]

\* a LinkedFile whose download failed
LinkedFileFailed(n) == kind[n] = "linked_file" /\ ret[n].val = "-1"

\* C9: a LinkedFile whose download fails writes no file, reports FAILED and no
\* SYNCED, raises nothing, and when no other sync raises the run ends with every
\* entity (later siblings and parent included) flushed and returned
C9_LinkedFileFailure ==
    \A n \in Node :
        LinkedFileFailed(n) =>
            /\ ~written[n]
            /\ pc[n] # "raised"
            /\ "FAILED" \in Lines(n)
            /\ "SYNCED" \notin Lines(n)
            /\ (Quiescent /\ ~AnyRaised) =>
                  /\ AllDone
                  /\ child_to_print[Root] = Len(children[Root])

C9_Witness ==
    \E n \in Node, m \in Node :
        /\ LinkedFileFailed(n)
        /\ ret[n].at = 99
        /\ parent(m) = parent(n) /\ m > n
        /\ AllDone

\* an ExternalUrl whose mirrored-content download failed: requests.head raised
\* (line 132) or requests.get raised or returned an error status (line 148)
MirrorFailed(n) == kind[n] = "external_url" /\ ret[n].at \in {132, 148}

\* C10 as claimed: the ExternalUrl whose mirrored download failed reports FAILED
C10_ReportsFailed ==
    \A n \in Node : MirrorFailed(n) => "FAILED" \in Lines(n)

\* C10 as amended: the ExternalUrl whose mirrored download failed reports SYNCED
\* (no FAILED, no DOWNLOADING line), writes no mirror file, raises nothing, and
\* when no other sync raises the run ends with every entity flushed and returned
C10_MirrorFailureSilent ==
    \A n \in Node :
        MirrorFailed(n) =>
            /\ ~written[n]
            /\ pc[n] # "raised"
            /\ "FAILED" \notin Lines(n)
            /\ "DOWNLOADING" \notin Lines(n)
            /\ "SYNCED" \in Lines(n)
            /\ (Quiescent /\ ~AnyRaised) =>
                  /\ AllDone
                  /\ child_to_print[Root] = Len(children[Root])

C10_Witness ==
    \E n \in Node, m \in Node :
        /\ MirrorFailed(n)
        /\ ret[n].at = 148
        /\ parent(m) = parent(n) /\ m > n
        /\ AllDone

(***************************************************************************)
(* Properties of the leaves' write policies.                               *)
(***************************************************************************)
\* C7: the second of two runs against an unchanged remote side writes no file
\* content, whatever the class of the leaf
C7_SecondRunWritesNothing ==
    \A i \in 2 .. Len(log) : log[i].writes = 0

\* C8: File.download calls download_file_payload not at all when the local file
\* exists with an mtime at or after the remote modified_at, and otherwise exactly
\* once, writes the file and leaves its mtime equal to the remote modified_at
C8_MtimePolicy ==
    (leaf = "file" /\ ~remote.locked) =>
        \A i \in 1 .. Len(log) :
            IF log[i].before.exists /\ log[i].before.mtime >= remote.modified_at
            THEN log[i].calls = 0
            ELSE /\ log[i].calls = 1
                 /\ log[i].writes = 1
                 /\ log[i].after.mtime = remote.modified_at

(***************************************************************************)
(* Properties of the duplicate registry.                                   *)
(***************************************************************************)
\* the File nodes created for file F, as <<branch, position>>
FileNodes(F) ==
    { <<b, i>> \in Branch \X (1 .. (MaxFile + 1)) :
        i <= Len(file_children[b]) /\ file_children[b][i] = F }

\* the branches that list file F
ListedIn(F) == { b \in Branch : F \in Range(listing[b]) }

\* C6: with duplicate avoidance on, a file that one Module and a folder of the
\* course's Files tree both list has, when every branch is done, exactly one File
\* node and exactly one local file
C6_ExactlyOneFile ==
    \A F \in FileId :
        ( /\ avoid_duplicates
          /\ Cardinality(ListedIn(F) \cap Modules) = 1
          /\ Cardinality(ListedIn(F) \cap Folders) = 1
          /\ \A b \in Branch : branch_pc[b] = "done" )
        => /\ Cardinality(FileNodes(F)) = 1
           /\ Cardinality({ p \in local_paths : p[2] = F }) = 1

(***************************************************************************)
(* Properties of the File leaf inside the engine.                          *)
(***************************************************************************)
\* a File whose metadata marks it locked for the user: File.sync took line 105
LockedFile(n) == kind[n] = "file" /\ ret[n].at = 105

\* C11: a locked File makes no payload-download call and no write, reports LOCKED
\* and nothing else, raises nothing, and when no other sync raises the run ends
\* with every entity flushed and returned
C11_LockedFile ==
    \A n \in Node :
        LockedFile(n) =>
            /\ ret[n].calls = 0
            /\ ~written[n]
            /\ pc[n] # "raised"
            /\ Lines(n) = {"LOCKED"}
            /\ (Quiescent /\ ~AnyRaised) =>
                  /\ AllDone
                  /\ child_to_print[parent(n)] = Len(children[parent(n)])

C11_Witness ==
    \E n \in Node, m \in Node :
        /\ LockedFile(n)
        /\ parent(m) = parent(n) /\ m > n
        /\ AllDone

(***************************************************************************)
(* Properties of interrupted writes.                                       *)
(***************************************************************************)
\* the leaf's last sync re-raised a KeyboardInterrupt
WasInterrupted == log # <<>> /\ log[Len(log)].ret = "KeyboardInterrupt"

\* C12: a File whose write or mtime update is interrupted leaves no file at its
\* path, and the interrupt is re-raised
C12_FileRollback ==
    (leaf = "file" /\ WasInterrupted) =>
        /\ ~local.exists
        /\ log[Len(log)].raised

\* an interrupted File sync that found an older file at the path
C12_Witness ==
    /\ leaf = "file"
    /\ WasInterrupted
    /\ log[Len(log)].before.exists
    /\ log[Len(log)].calls = 1

\* C13: whatever the class of the leaf, an interrupted write leaves no file at the
\* path that was being written
C13_AnyLeafRollback ==
    WasInterrupted =>
        IF log[Len(log)].at = 82 THEN ~shortcut.exists ELSE ~local.exists

(***************************************************************************)
(* Properties of the Course inside the engine.                             *)
(***************************************************************************)
\* a Course that is not in the selected-courses list
Skipped(n) == kind[n] = "course" /\ ret[n].at = 146

\* the lines of entity n among the lines written to stdout
Printed(n) == { i \in 1 .. Len(output) : output[i][1] = n }

\* C14: an unselected Course buffers SKIPPED and nothing else, constructs no
\* child, makes no listing call, creates no directory, raises nothing, and when no
\* other sync raises the run ends with the course returned, its one line printed
\* and the root's counter past every course
C14_SkippedCourse ==
    \A n \in Node :
        Skipped(n) =>
            /\ children[n] = <<>>
            /\ \A d \in Descendants(n) : pc[d] = "none"
            /\ ret[n].calls = 0
            /\ ~written[n]
            /\ pc[n] # "raised"
            /\ Lines(n) = {"SKIPPED"}
            /\ (Quiescent /\ ~AnyRaised) =>
                  /\ pc[n] = "done"
                  /\ Cardinality(Printed(n)) = 1
                  /\ child_to_print[Root] = Len(children[Root])

\* a skipped Course that holds something remotely, and a later Course, both done
C14_Witness ==
    \E n \in Node, m \in Node :
        /\ Skipped(n)
        /\ RemoteChildren(n) # <<>>
        /\ parent(m) = Root /\ m > n
        /\ pc[n] = "done" /\ pc[m] = "done" /\ pc[Root] = "done"

(***************************************************************************)
(* Properties of reorganize.                                               *)
(***************************************************************************)
\* reorganize returns: line 73
Returned == item_i = Len(items)

Increasing(s) == \A i \in 1 .. Len(s), j \in 1 .. Len(s) : i < j => s[i] < s[j]

\* the positions of the SubHeader items, in order
SubHeaders == SortedSeq({ i \in 1 .. Len(items) : items[i].type = "SubHeader" })

\* [A(0), SubHeader1(0), B(1), C(1), D(0)]
Example ==
    << [type |-> "File", indent |-> 0], [type |-> "SubHeader", indent |-> 0],
       [type |-> "File", indent |-> 1], [type |-> "File", indent |-> 1],
       [type |-> "File", indent |-> 0] >>

\* C15: for a non-empty list reorganize returns lists in which every item occurs
\* exactly once, each in input order, with one group per SubHeader that starts with
\* that SubHeader; the example list yields outer [A, D] and one group
\* [SubHeader1, B, C]
C15_Reorganize ==
    (Returned /\ items # <<>>) =>
        LET all == outer_scope_files \o Flatten(sub_folders) IN
        /\ Len(all) = Len(items)
        /\ Range(all) = 1 .. Len(items)
        /\ Increasing(outer_scope_files)
        /\ \A g \in 1 .. Len(sub_folders) : Increasing(sub_folders[g])
        /\ Len(sub_folders) = Len(SubHeaders)
        /\ \A g \in 1 .. Len(sub_folders) : sub_folders[g][1] = SubHeaders[g]
        /\ items = Example =>
              /\ outer_scope_files = <<1, 5>>
              /\ sub_folders = << <<2, 3, 4>> >>

C15_Witness == Returned /\ items = Example

(***************************************************************************)
(* Properties of the shortcut and of the mirrored content of an            *)
(* ExternalUrl.                                                            *)
(***************************************************************************)
\* the shortcut file make_url_shortcut makes for the leaf's URL
NewShortcut == ShortcutContent(platform.sys, remote.url)

\* C16: make_url_shortcut writes the shortcut and returns True when no file exists
\* or its bytes differ, writes nothing and returns False when the file is
\* byte-identical; two consecutive calls with the same arguments write once at most,
\* and the second never
C16_ShortcutIdempotent ==
    leaf = "external_url" =>
        /\ \A i \in 1 .. Len(log) :
              LET e == log[i]
                  identical == e.shortcut_before.exists
                               /\ e.shortcut_before.data = NewShortcut
              IN  IF identical
                  THEN /\ ~e.shortcut_write
                       /\ e.shortcut_ret = "False"
                       /\ e.shortcut_after = e.shortcut_before
                  ELSE /\ e.shortcut_write
                       /\ e.shortcut_ret = "True"
                       /\ e.shortcut_after.exists
                       /\ e.shortcut_after.data = NewShortcut
        /\ Len(log) = 2 => ~log[2].shortcut_write

C16_Witness ==
    /\ leaf = "external_url"
    /\ Len(log) = 2
    /\ log[1].shortcut_write
    /\ log[1].shortcut_before.exists
    /\ ~log[2].shortcut_write

\* the sync whose log entry is e downloaded the URL's content while a mirror file
\* existed that differs from it
DownloadedOverDifferent(e) ==
    /\ e.before.exists
    /\ e.at = 166
    /\ e.calls = 1
    /\ remote.content # e.before.data

\* the number of writes of the mirror file
MirrorWrites(e) == e.writes - (IF e.shortcut_write THEN 1 ELSE 0)

\* C17: when the mirror file exists and the downloaded content differs from it, the
\* file is overwritten if and only if the new content is strictly longer than half
\* the old content; otherwise the file's bytes stay as they were
C17_ShrinkGuard ==
    leaf = "external_url" =>
        \A i \in 1 .. Len(log) :
            LET e == log[i] IN
            DownloadedOverDifferent(e) =>
                IF 2 * Len(remote.content) > Len(e.before.data)
                THEN MirrorWrites(e) = 1 /\ e.after.data = remote.content
                ELSE MirrorWrites(e) = 0 /\ e.after.data = e.before.data

C17_Witness ==
    /\ leaf = "external_url"
    /\ Len(log) > 0
    /\ DownloadedOverDifferent(log[1])
    /\ 2 * Len(remote.content) = Len(log[1].before.data)
    /\ log[1].after.data = log[1].before.data

(***************************************************************************)
(* Properties of the print turn.                                           *)
(***************************************************************************)
\* n is inside _flush_print_queue: past its print-turn loop, has_printed not yet set
Flushing(n) == pc[n] \in {"flush", "printed"}

\* C18: a non-root node is flushing only while its parent has flushed and the
\* parent's counter equals the node's sibling index; the root, once at its
\* print-turn loop, flushes without waiting
C18_FlushOnTurn ==
    /\ \A n \in Node :
          (Flushing(n) /\ parent(n) # None) =>
              /\ has_printed[parent(n)]
              /\ child_to_print[parent(n)] = IndexIn(children[parent(n)], n)
    /\ pc[Root] = "wait" => ENABLED WaitTurn(Root)

C18_Witness ==
    \E n \in Node :
        /\ Flushing(n)
        /\ parent(n) # None
        /\ IndexIn(children[parent(n)], n) >= 1
        /\ max_workers >= 2

\* C19: at most one node is flushing at any time, and the lines of one node stand
\* together in the output with no line of another node between them
C19_OneFlusher ==
    /\ Cardinality({ n \in Node : Flushing(n) }) <= 1
    /\ \A i \in 1 .. Len(output), k \in 1 .. Len(output) :
          (i < k /\ output[i][1] = output[k][1]) =>
              \A j \in i .. k : output[j][1] = output[i][1]

\* a node has flushed two lines while another node's worker sits in its print-turn
\* loop
C19_Witness ==
    \E n \in Node, m \in Node :
        /\ Cardinality(Printed(n)) >= 2
        /\ Flushing(n)
        /\ m # n
        /\ pc[m] = "wait"

(***************************************************************************)
(* Properties of the order of the steps of a Page's or an Assignment's     *)
(* sync.                                                                   *)
(***************************************************************************)
\* n's sync has written (or checked) its own HTML file
SelfDone(n) == ret[n].at # 0

Dispatched(c) == pc[c] \notin {"none", "new"}

\* C20 as stated: the own artifact of a node is not written before its children
\* have been dispatched
C20_ArtifactAfterDispatch ==
    \A n \in Node :
        (kind[n] \in OwnerKinds /\ written[n]) =>
            \A c \in Range(children[n]) : Dispatched(c)

\* C20: the steps of a Page's or an Assignment's sync occur in the order: enumerate
\* the children, write the own HTML file, dispatch every child's sync, then wait
\* for all dispatched children; the own file is written while no child has been
\* dispatched
C20_ArtifactBeforeDispatch ==
    [][\A n \in Node :
          kind[n] \in OwnerKinds =>
              \* the own file is written after the enumeration, before any dispatch
              /\ (SelfDone(n)' /\ ~SelfDone(n)) =>
                    /\ children'[n] = RemoteChildren(n)
                    /\ \A c \in Range(children'[n]) : ~Dispatched(c)'
              /\ (written'[n] # written[n]) => (SelfDone(n)' /\ ~SelfDone(n))
              \* the children are dispatched together, after the own file
              /\ \A c \in Range(children[n]) :
                    (Dispatched(c)' /\ ~Dispatched(c)) =>
                        /\ SelfDone(n)
                        /\ \A d \in Range(children[n]) : Dispatched(d)'
              \* the sync returns only after every dispatched child's sync
              /\ (pc'[n] \in {"inc", "done"} /\ pc[n] = "join") =>
                    \A c \in Range(children[n]) : pc[c] = "done"
    ]_vars

\* a Page or an Assignment with two children has written its file and returned
C20_Witness ==
    \E n \in Node :
        /\ kind[n] \in OwnerKinds
        /\ written[n]
        /\ Len(children[n]) >= 2
        /\ pc[n] = "done"

\* the number of entries of registry s for file id x
Count(s, x) == Cardinality({ i \in 1 .. Len(s) : s[i] = x })

\* C21: the registry of a course holds at most one File entry per file id, even
\* when two Modules of the course list the same file
C21_RegisteredOnce ==
    \A F \in FileId : Count(entities, F) <= 1

\* the File nodes the Modules constructed for file F
ModuleNodes(F) == { n \in FileNodes(F) : n[1] \in Modules }

\* C22: every File node a Module constructed is in the course's registry, whatever
\* the interleaving of the branches (the registry holds one entry per such node),
\* and the File nodes a Folder constructed add no entry
C22_NoRegistrationLost ==
    \A F \in FileId : Count(entities, F) = Cardinality(ModuleNodes(F))

\* both Modules have registered a File and a Folder has constructed one too
C22_Witness ==
    /\ \A m \in Modules : file_children[m] # <<>>
    /\ \E f \in Folders : file_children[f] # <<>>
    /\ \A b \in Branch : branch_pc[b] = "done"

(***************************************************************************)
(* Folder.sync up to its super().sync(): the black list, add_files,        *)
(* add_sub_folders.                                                        *)
(* settings.avoid_duplicates : the setting                                 *)
(* api.entities : get_entities(course id), entries [identifier, id]        *)
(* api.files    : get_files_in_folder, a file id or None for an empty entry*)
(* api.folders  : get_folders_in_folder, the folders' names                *)
(* fields.black_list : self.black_list, <<>> for the default False too     *)
(***************************************************************************)
\* longest remote listing of one folder
MaxListed == 2

FolderNames == {"course_image", "lectures"}
FolderListings ==
    {<<>>} \cup { <<a>> : a \in FolderNames } \cup
    { s \in [1 .. 2 -> FolderNames] : s[1] # s[2] }

FileListings == UNION { [1 .. k -> FileId \cup {None}] : k \in 0 .. MaxListed }

\* what the registry can hold when the folder's sync starts: the Files registered
\* so far, and entities of other classes
Registries ==
    { p \o [i \in 1 .. Len(SortedSeq(S)) |-> [identifier |-> "file", id |-> SortedSeq(S)[i]]] :
        p \in {<<>>, << [identifier |-> "page", id |-> 0] >>}, S \in SUBSET FileId }

InitFolder ==
    /\ handler = "folder"
    /\ settings \in [avoid_duplicates : BOOLEAN]
    /\ api \in [entities : Registries, files : FileListings, folders : FolderListings]
    /\ fields \in [black_list : {<<>>} \cup { <<id>> : id \in FileId }]
    /\ new_children = <<>>
    /\ e_pc = "black_list"
    /\ e_i = 0
    /\ EngineIdle
    /\ PolicyIdle
    /\ DedupIdle
    /\ ReorganizeIdle

\* Folder.initialize_black_list on the registry reg
FileIdsOf(reg) ==
    LET idx == SortedSeq({ i \in 1 .. Len(reg) : reg[i].identifier = "file" })
    IN  [j \in 1 .. Len(idx) |-> reg[idx[j]].id]

\* Folder.sync lines 107-110
FolderSync_black_list ==
    /\ handler = "folder"
    /\ e_pc = "black_list"
    /\ fields' = [fields EXCEPT !.black_list =
                    IF @ = <<>> /\ settings.avoid_duplicates THEN FileIdsOf(api.entities)
                    ELSE IF ~settings.avoid_duplicates THEN <<>>
                    ELSE @]
    /\ e_pc' = "add_files"
    /\ e_i' = 0
    /\ UNCHANGED <<handler, settings, api, new_children>>
    /\ UNCHANGED <<engine_vars, policy_vars, dedup_vars, reorganize_vars>>

\* line 80: not file or file["id"] in self.black_list
SkipFile_EmptyOnly(file, bl) == file = None
SkipFile(file, bl) == file = None \/ file \in Range(bl)

\* Folder.add_files, one turn of the loop, or its end
FolderSync_add_file ==
    /\ handler = "folder"
    /\ e_pc = "add_files"
    /\ IF e_i < Len(api.files)
       THEN LET file == api.files[e_i + 1] IN
            /\ new_children' =
                  IF SkipFile(file, fields.black_list) THEN new_children
                  ELSE Append(new_children, [class |-> "File", id |-> file,
                                             add_to_list_of_entities |-> FALSE])
            /\ e_i' = e_i + 1
            /\ e_pc' = e_pc
       ELSE /\ e_pc' = "add_sub_folders"
            /\ e_i' = 0
            /\ UNCHANGED new_children
    /\ UNCHANGED <<handler, settings, api, fields>>
    /\ UNCHANGED <<engine_vars, policy_vars, dedup_vars, reorganize_vars>>

\* Folder.add_sub_folders, one turn of the loop, or its end (super().sync() next)
FolderSync_add_sub_folder ==
    /\ handler = "folder"
    /\ e_pc = "add_sub_folders"
    /\ IF e_i < Len(api.folders)
       THEN LET folder == api.folders[e_i + 1] IN
            /\ new_children' =
                  IF folder = "course_image" THEN new_children
                  ELSE Append(new_children, [class |-> "Folder", id |-> folder,
                                             black_list |-> fields.black_list])
            /\ e_i' = e_i + 1
            /\ e_pc' = e_pc
       ELSE /\ e_pc' = "sync"
            /\ UNCHANGED <<new_children, e_i>>
    /\ UNCHANGED <<handler, settings, api, fields>>
    /\ UNCHANGED <<engine_vars, policy_vars, dedup_vars, reorganize_vars>>

NextFolder == FolderSync_black_list \/ FolderSync_add_file \/ FolderSync_add_sub_folder

FolderSpec == InitFolder /\ [][NextFolder]_vars

(***************************************************************************)
(* Properties of a Folder's enumeration.                                   *)
(***************************************************************************)
\* the sub-sequence of s of the elements that are in S
RECURSIVE SelectIn(_, _)
SelectIn(s, S) ==
    IF s = <<>> THEN <<>>
    ELSE (IF Head(s) \in S THEN <<Head(s)>> ELSE <<>>) \o SelectIn(Tail(s), S)

\* the ids of the children of one class, in the order of the children
ChildIds(class) ==
    LET idx == SortedSeq({ i \in 1 .. Len(new_children) : new_children[i].class = class })
    IN  [j \in 1 .. Len(idx) |-> new_children[idx[j]].id]

\* C23: a Folder creates no File child whose id is in its black list; with
\* duplicate avoidance off the black list is empty and every non-empty listed file
\* becomes a child; a remote folder named course_image never becomes a child
C23_FolderExclusion ==
    (handler = "folder" /\ e_pc # "black_list") =>
        /\ Range(ChildIds("File")) \cap Range(fields.black_list) = {}
        /\ ~settings.avoid_duplicates =>
              /\ fields.black_list = <<>>
              /\ e_pc # "add_files" => ChildIds("File") = SelectIn(api.files, FileId)
        /\ "course_image" \notin Range(ChildIds("Folder"))
        /\ e_pc = "sync" =>
              /\ ChildIds("File") = SelectIn(api.files, FileId \ Range(fields.black_list))
              /\ ChildIds("Folder") = SelectIn(api.folders, FolderNames \ {"course_image"})

\* a Folder that computed its black list from the registry has skipped a listed
\* file and a folder named course_image, and kept another file and another folder
C23_Witness ==
    /\ handler = "folder"
    /\ e_pc = "sync"
    /\ settings.avoid_duplicates
    /\ fields.black_list # <<>>
    /\ \E i \in 1 .. Len(api.files) : api.files[i] \in Range(fields.black_list)
    /\ ChildIds("File") # <<>>
    /\ "course_image" \in Range(api.folders)
    /\ ChildIds("Folder") # <<>>

\* the SubHeader items before position i
HeadersBefore(i) == { h \in 1 .. (i - 1) : items[h].type = "SubHeader" }

\* the SubHeader whose group is open when the item at position i is reached
OpenHeader(i) == CHOOSE h \in HeadersBefore(i) : \A k \in HeadersBefore(i) : k <= h

\* the item at position i was appended to the group that SubHeader h opened
InGroupOf(i, h) ==
    \E g \in 1 .. Len(sub_folders) :
        sub_folders[g][1] = h /\ i \in Range(sub_folders[g])

\* C24: a non-sub-header item that follows a SubHeader is placed in the open group
\* if and only if its indent is strictly greater than the indent of that group's
\* SubHeader, and in the outer scope otherwise
C24_GroupByHeaderIndent ==
    Returned =>
        \A i \in 1 .. Len(items) :
            (items[i].type # "SubHeader" /\ HeadersBefore(i) # {}) =>
                IF items[i].indent > items[OpenHeader(i)].indent
                THEN InGroupOf(i, OpenHeader(i))
                ELSE i \in Range(outer_scope_files)

(***************************************************************************)
(* Module.sync up to its super().sync(): print(str(self)), add_items.      *)
(* settings.modules_settings : the three toggles                           *)
(* api.items : get_items_in_module, each item with its type, its indent    *)
(*             and, for a File, what download_item_information gives for   *)
(*             its url: "info", "empty" (a falsy value) or "raise"         *)
(* fields.outer, fields.subs : what reorganize returned, as positions      *)
(* fields.print_queue : self.print_queue                                   *)
(* A child is [class, id], id the position of its item in the listing.     *)
(***************************************************************************)
Toggles == {"Files", "HTML pages", "External URLs"}
ModuleItemTypes == {"File", "Page", "Quiz", "ExternalUrl", "SubHeader", "Assignment"}
ModuleItem ==
    [type : {"File"}, indent : 0 .. MaxIndent, info : {"info", "empty", "raise"}]
    \cup [type : ModuleItemTypes \ {"File"}, indent : 0 .. MaxIndent, info : {"info"}]
ModuleListings == UNION { [1 .. k -> ModuleItem] : k \in 0 .. MaxListed }

\* helpers.reorganize as a function of the list: lines 57-71 from position i on
RECURSIVE reorganize_loop(_, _, _)
reorganize_loop(its, i, acc) ==
    IF i > Len(its) THEN acc
    ELSE LET item == its[i]
             index == Len(acc.subs) - 1
             lowest == Min({ its[k].indent : k \in 1 .. Len(its) })
         IN  reorganize_loop(its, i + 1,
                IF item.type = "SubHeader"
                THEN [acc EXCEPT !.subs = Append(@, <<i>>)]
                ELSE IF item.indent = lowest \/ index = -1
                THEN [acc EXCEPT !.outer = Append(@, i)]
                ELSE [acc EXCEPT !.subs[index + 1] = Append(@, i)])

reorganize(its) == reorganize_loop(its, 1, [outer |-> <<>>, subs |-> <<>>])

InitModule ==
    /\ handler = "module"
    /\ settings \in [modules_settings : [Toggles -> BOOLEAN]]
    /\ api \in [items : ModuleListings]
    /\ fields = [outer |-> <<>>, subs |-> <<>>, print_queue |-> <<>>]
    /\ new_children = <<>>
    /\ e_pc = "sync"
    /\ e_i = 0
    /\ EngineIdle
    /\ PolicyIdle
    /\ DedupIdle
    /\ ReorganizeIdle

\* Module.sync line 148 and add_items lines 123-128
Module_reorganize ==
    /\ handler = "module"
    /\ e_pc = "sync"
    /\ fields' = [outer |-> reorganize(api.items).outer, subs |-> reorganize(api.items).subs,
                  print_queue |-> <<"Module">>]
    /\ e_pc' = "items_in_this_scope"
    /\ e_i' = 0
    /\ UNCHANGED <<handler, settings, api, new_children>>
    /\ UNCHANGED <<engine_vars, policy_vars, dedup_vars, reorganize_vars>>

\* lines 132-137: the class of the child add_items makes for an outer-scope item,
\* "none" when it makes none
ChildClass_QuizSkipped(item, ms) ==
    IF item.type = "File" /\ ms["Files"] THEN "File"
    ELSE IF item.type = "Page" /\ ms["HTML pages"] THEN "Page"
    ELSE IF item.type = "ExternalUrl" /\ ms["External URLs"] THEN "ExternalUrl"
    ELSE "none"
ChildClass(item, ms) ==
    IF item.type = "File" /\ ms["Files"] THEN "File"
    ELSE IF item.type \in {"Page", "Quiz"} /\ ms["HTML pages"] THEN "Page"
    ELSE IF item.type = "ExternalUrl" /\ ms["External URLs"] THEN "ExternalUrl"
    ELSE "none"

\* lines 131-137, one outer-scope item (add_file, add_page or add_url), or the
\* loop's end
Module_add_item ==
    /\ handler = "module"
    /\ e_pc = "items_in_this_scope"
    /\ IF e_i < Len(fields.outer)
       THEN LET p == fields.outer[e_i + 1]
                item == api.items[p]
                class == ChildClass(item, settings.modules_settings)
            IN  IF class = "File" /\ item.info = "raise"
                THEN /\ e_pc' = "raised"
                     /\ UNCHANGED <<new_children, e_i>>
                ELSE /\ new_children' =
                           IF class = "none" \/ (class = "File" /\ item.info = "empty")
                           THEN new_children
                           ELSE Append(new_children, [class |-> class, id |-> p])
                     /\ e_i' = e_i + 1
                     /\ e_pc' = e_pc
       ELSE /\ e_pc' = "sub_folders"
            /\ e_i' = 0
            /\ UNCHANGED new_children
    /\ UNCHANGED <<handler, settings, api, fields>>
    /\ UNCHANGED <<engine_vars, policy_vars, dedup_vars, reorganize_vars>>

\* lines 140-141: add_sub_header for one group, or the loop's end (super().sync()
\* next)
Module_add_sub_header ==
    /\ handler = "module"
    /\ e_pc = "sub_folders"
    /\ IF e_i < Len(fields.subs)
       THEN LET folder == fields.subs[e_i + 1] IN
            /\ new_children' = Append(new_children, [class |-> "SubHeader", id |-> folder[1]])
            /\ e_i' = e_i + 1
            /\ e_pc' = e_pc
       ELSE /\ e_pc' = "super_sync"
            /\ UNCHANGED <<new_children, e_i>>
    /\ UNCHANGED <<handler, settings, api, fields>>
    /\ UNCHANGED <<engine_vars, policy_vars, dedup_vars, reorganize_vars>>

NextModule == Module_reorganize \/ Module_add_item \/ Module_add_sub_header

ModuleSpec == InitModule /\ [][NextModule]_vars

(***************************************************************************)
(* Properties of a Module's enumeration.                                   *)
(***************************************************************************)
\* the positions in the remote listing of the items the children stand for, in
\* the order of the children
ChildPositions == [j \in 1 .. Len(new_children) |-> new_children[j].id]

\* C25: the order of a Module's children is the order in which their items are
\* declared in the remote listing, sub-header groups and outer-scope items alike
C25_DeclaredOrder ==
    (handler = "module" /\ e_pc = "super_sync") => Increasing(ChildPositions)

\* the outer-scope items whose turn of the loop of lines 131-137 has ended
ProcessedOuter ==
    IF e_pc = "sync" THEN 0
    ELSE IF e_pc \in {"items_in_this_scope", "raised"} THEN e_i
    ELSE Len(fields.outer)

\* the classes of the children made for the item at position p
ChildrenOf(p) ==
    SelectIn(new_children, { c \in Range(new_children) : c.id = p /\ c.class # "SubHeader" })

\* C26: each outer-scope item yields at most one child: a File iff its type is File,
\* the Files toggle is on and its metadata resolves; a Page iff its type is Page or
\* Quiz and the HTML-pages toggle is on; an ExternalUrl iff its type is ExternalUrl
\* and the External-URLs toggle is on; any other type or a disabled toggle yields no
\* child, no status line and no error
C26_ChildPerItem ==
    handler = "module" =>
        /\ \A j \in 1 .. ProcessedOuter :
              LET p == fields.outer[j]
                  item == api.items[p]
                  ms == settings.modules_settings
                  made == ChildrenOf(p)
              IN  /\ Len(made) <= 1
                  /\ (made # <<>> /\ made[1].class = "File") <=>
                        (item.type = "File" /\ ms["Files"] /\ item.info = "info")
                  /\ (made # <<>> /\ made[1].class = "Page") <=>
                        (item.type \in {"Page", "Quiz"} /\ ms["HTML pages"])
                  /\ (made # <<>> /\ made[1].class = "ExternalUrl") <=>
                        (item.type = "ExternalUrl" /\ ms["External URLs"])
                  /\ made # <<>> => made[1].class \in {"File", "Page", "ExternalUrl"}
        \* no status line beyond the Module's own, and no error but that of a File
        \* whose metadata request raises
        /\ fields.print_queue \in {<<>>, <<"Module">>}
        /\ e_pc = "raised" =>
              LET item == api.items[fields.outer[e_i + 1]] IN
              item.type = "File" /\ settings.modules_settings["Files"] /\ item.info = "raise"

\* a Module has made a Page for a Quiz item and no child for a Page item whose
\* File-typed neighbour has its toggle off
C26_Witness ==
    /\ handler = "module"
    /\ e_pc = "super_sync"
    /\ ~settings.modules_settings["Files"]
    /\ settings.modules_settings["HTML pages"]
    /\ \E p \in Range(fields.outer) : api.items[p].type = "Quiz" /\ ChildrenOf(p) # <<>>
    /\ \E p \in Range(fields.outer) : api.items[p].type = "File" /\ ChildrenOf(p) = <<>>

(***************************************************************************)
(* Course.sync of a selected course, up to its super().sync().             *)
(* settings.modules_settings, settings.sync_assignments : the toggles      *)
(* api.modules     : get_modules_in_course, the modules' ids as listed     *)
(* api.pages       : get_pages_in_course, the number of pages              *)
(* api.assignments : get_assignments_in_course, the number of assignments  *)
(* api.folders     : get_folders_in_course, the folders' full names        *)
(***************************************************************************)
ModuleId == 1 .. MaxListed
ModuleIdListings ==
    { s \in UNION { [1 .. k -> ModuleId] : k \in 0 .. MaxListed } :
        \A i \in 1 .. Len(s), j \in 1 .. Len(s) : i # j => s[i] # s[j] }

FullNames == {"course files", "course files/lectures"}
CourseFolderListings ==
    {<<>>} \cup { <<a>> : a \in FullNames } \cup { s \in [1 .. 2 -> FullNames] : s[1] # s[2] }

InitCourse ==
    /\ handler = "course"
    /\ settings \in [modules_settings : [Toggles -> BOOLEAN], sync_assignments : BOOLEAN]
    /\ api \in [modules : ModuleIdListings, pages : 0 .. MaxListed,
                assignments : 0 .. MaxListed, folders : CourseFolderListings]
    /\ fields = [to_be_synced |-> TRUE, print_queue |-> <<"Course">>]
    /\ new_children = <<>>
    /\ e_pc = "add_modules"
    /\ e_i = 0
    /\ EngineIdle
    /\ PolicyIdle
    /\ DedupIdle
    /\ ReorganizeIdle

\* line 148: not list(self.settings.modules_settings.values()) == [False, False, False]
ModulesEnabled(ms) == \E t \in Toggles : ms[t]

\* lines 148-149 and add_modules: the modules sorted by id, one Module each
Course_add_modules ==
    /\ handler = "course"
    /\ e_pc = "add_modules"
    /\ IF ModulesEnabled(settings.modules_settings)
       THEN /\ new_children' =
                  new_children \o
                  [i \in 1 .. Len(api.modules) |->
                      [class |-> "Module", id |-> SortedSeq(Range(api.modules))[i]]]
            /\ e_pc' = "add_pages"
       ELSE /\ e_pc' = "add_assignments_folder"
            /\ UNCHANGED new_children
    /\ UNCHANGED <<handler, settings, api, fields, e_i>>
    /\ UNCHANGED <<engine_vars, policy_vars, dedup_vars, reorganize_vars>>

\* line 150 and add_pages: one IsolatedPage per listed page
Course_add_pages ==
    /\ handler = "course"
    /\ e_pc = "add_pages"
    /\ new_children' =
          new_children \o [i \in 1 .. api.pages |-> [class |-> "IsolatedPage", id |-> i]]
    /\ e_pc' = "add_assignments_folder"
    /\ UNCHANGED <<handler, settings, api, fields, e_i>>
    /\ UNCHANGED <<engine_vars, policy_vars, dedup_vars, reorganize_vars>>

\* lines 152-154 and add_assignments_folder
Course_add_assignments_folder ==
    /\ handler = "course"
    /\ e_pc = "add_assignments_folder"
    /\ new_children' =
          IF settings.sync_assignments /\ api.assignments # 0
          THEN Append(new_children, [class |-> "AssignmentsFolder", id |-> 0])
          ELSE new_children
    /\ e_pc' = "add_files_folder"
    /\ UNCHANGED <<handler, settings, api, fields, e_i>>
    /\ UNCHANGED <<engine_vars, policy_vars, dedup_vars, reorganize_vars>>

\* line 157 and add_files_folder: main_folder stays None when no listed folder has
\* the full name "course files", and main_folder["name"] = "Files" raises TypeError
Course_add_files_folder ==
    /\ handler = "course"
    /\ e_pc = "add_files_folder"
    /\ IF "course files" \in Range(api.folders)
       THEN /\ new_children' = Append(new_children, [class |-> "Folder", id |-> "Files"])
            /\ e_pc' = "super_sync"
       ELSE /\ e_pc' = "raised"
            /\ UNCHANGED new_children
    /\ UNCHANGED <<handler, settings, api, fields, e_i>>
    /\ UNCHANGED <<engine_vars, policy_vars, dedup_vars, reorganize_vars>>

NextCourse ==
    \/ Course_add_modules
    \/ Course_add_pages
    \/ Course_add_assignments_folder
    \/ Course_add_files_folder

CourseSyncSpec == InitCourse /\ [][NextCourse]_vars

(***************************************************************************)
(* Properties of a Course's enumeration.                                   *)
(***************************************************************************)
\* Course.sync has left its enumeration: super().sync() is next, or it raised
Enumeration_Over == e_pc \in {"super_sync", "raised"}

\* what the toggles let through of the modules, pages and assignments
GatedChildren ==
    /\ ChildIds("Module") =
          IF ModulesEnabled(settings.modules_settings)
          THEN SortedSeq(Range(api.modules)) ELSE <<>>
    /\ Len(ChildIds("IsolatedPage")) =
          IF ModulesEnabled(settings.modules_settings) THEN api.pages ELSE 0
    /\ Len(ChildIds("AssignmentsFolder")) =
          IF settings.sync_assignments /\ api.assignments > 0 THEN 1 ELSE 0

\* C27: for a selected course modules and pages are enumerated iff one of the three
\* module toggles is on, an assignments folder is added iff assignment sync is on
\* and the course has an assignment, and exactly one Files folder is always added,
\* as the last child
C27_CourseChildren ==
    (handler = "course" /\ Enumeration_Over) =>
        /\ GatedChildren
        /\ Len(ChildIds("Folder")) = 1
        /\ new_children[Len(new_children)].class = "Folder"

(***************************************************************************)
(* Properties of the HTML file of a Page or an Assignment.                 *)
(***************************************************************************)
\* the bytes a write of the leaf's generated HTML puts into its file
GeneratedBytes == EncodeText(remote.content, platform.sys)

\* C28: for a Page and an Assignment alike, the HTML file is written if and only
\* if no file exists yet or the generated content differs from the content of the
\* existing file; an Assignment whose description changed since the file was
\* written has its file rewritten
C28_WriteIffDiffers ==
    leaf \in {"page", "assignment"} =>
        \A i \in 1 .. Len(log) :
            LET e == log[i] IN
            (e.writes = 1) <=> (~e.before.exists \/ e.before.data # GeneratedBytes)

(***************************************************************************)
(* The references embedded in the body of a Page and in the description of *)
(* an Assignment: Page.download_linked_files, Page.download, Page.sync,    *)
(* Assignment.add_files and Assignment.make_html.  A path is the sequence  *)
(* of its components; api.canvas_file_urls[i] is what                      *)
(* download_item_information answers for the i-th data-api-endpoint        *)
(* reference, api.urls[i] is url_is_valid() of the i-th href reference.    *)
(***************************************************************************)
\* what download_item_information does for a reference: file metadata (with
\* display_name), page metadata (with page_id), other metadata, an empty
\* result, or an exception
RefOutcomes == {"file", "page", "other", "empty", "raise"}
RefListings == UNION { [1 .. n -> RefOutcomes] : n \in 0 .. MaxListed }
UrlListings == UNION { [1 .. n -> BOOLEAN] : n \in 0 .. MaxListed }

\* a path component: the name of an entity or of its HTML file
PathName(class, i) == [class |-> class, i |-> i]
\* os.path.join of a path and a relative name
join(path, name) == Append(path, name)
ParentPath == <<PathName("parent", 0)>>
OwnName == PathName("own", 0)
HtmlName == PathName("html", 0)

\* the constructor of File, LinkedFile and Page under the entity at path
NewRefChild(class, i, path) ==
    [class |-> class, name |-> PathName(class, i), sync_path |-> join(path, PathName(class, i))]

InitLinked ==
    /\ handler \in {"page", "assignment"}
    /\ settings \in [download_linked : BOOLEAN]
    /\ api \in [canvas_file_urls : RefListings, urls : UrlListings]
    /\ fields = [sync_path |-> ParentPath, html |-> <<>>, sub_files |-> FALSE]
    /\ new_children = <<>>
    /\ e_pc = "canvas_file_urls"
    /\ e_i = 0
    /\ EngineIdle
    /\ PolicyIdle
    /\ DedupIdle
    /\ ReorganizeIdle

\* Page.download_linked_files, one turn of the loop over the data-api-endpoint
\* references, or its end
Page_canvas_file_url ==
    /\ handler = "page"
    /\ e_pc = "canvas_file_urls"
    /\ IF e_i < Len(api.canvas_file_urls)
       THEN LET file_info == api.canvas_file_urls[e_i + 1] IN
            /\ IF file_info = "file"
               THEN /\ new_children' = Append(new_children,
                                              NewRefChild("File", e_i + 1, fields.sync_path))
                    /\ fields' = [fields EXCEPT !.sub_files = TRUE]
               ELSE UNCHANGED <<new_children, fields>>
            /\ e_i' = e_i + 1
            /\ e_pc' = e_pc
       ELSE /\ e_pc' = IF settings.download_linked THEN "urls" ELSE "make_html"
            /\ e_i' = 0
            /\ UNCHANGED <<new_children, fields>>
    /\ UNCHANGED <<handler, settings, api>>
    /\ UNCHANGED <<engine_vars, policy_vars, dedup_vars, reorganize_vars>>

\* Page.download_linked_files, one turn of the loop over the href references, or
\* its end
Page_url ==
    /\ handler = "page"
    /\ e_pc = "urls"
    /\ IF e_i < Len(api.urls)
       THEN /\ IF api.urls[e_i + 1]
               THEN /\ new_children' = Append(new_children,
                                              NewRefChild("LinkedFile", e_i + 1, fields.sync_path))
                    /\ fields' = [fields EXCEPT !.sub_files = TRUE]
               ELSE UNCHANGED <<new_children, fields>>
            /\ e_i' = e_i + 1
            /\ e_pc' = e_pc
       ELSE /\ e_pc' = "make_html"
            /\ e_i' = 0
            /\ UNCHANGED <<new_children, fields>>
    /\ UNCHANGED <<handler, settings, api>>
    /\ UNCHANGED <<engine_vars, policy_vars, dedup_vars, reorganize_vars>>

\* Page.download after download_linked_files: the folder of the page and the
\* path of its HTML file
Page_make_html ==
    /\ handler = "page"
    /\ e_pc = "make_html"
    /\ LET sync_path == IF fields.sub_files THEN join(fields.sync_path, OwnName)
                        ELSE fields.sync_path
       IN  fields' = [fields EXCEPT !.sync_path = sync_path,
                                    !.html = join(sync_path, HtmlName)]
    /\ e_pc' = "update_path"
    /\ UNCHANGED <<handler, settings, api, new_children, e_i>>
    /\ UNCHANGED <<engine_vars, policy_vars, dedup_vars, reorganize_vars>>

\* CanvasEntity.update_path of the child of an entity at parent_path
update_path_Keep(child, parent_path) == child
update_path(child, parent_path) ==
    [child EXCEPT !.sync_path = join(parent_path, child.name)]

\* Page.sync after download: update_path of every child; super().sync() next
Page_update_path ==
    /\ handler = "page"
    /\ e_pc = "update_path"
    /\ new_children' = [i \in 1 .. Len(new_children) |->
                            update_path(new_children[i], fields.sync_path)]
    /\ e_pc' = "super_sync"
    /\ UNCHANGED <<handler, settings, api, fields, e_i>>
    /\ UNCHANGED <<engine_vars, policy_vars, dedup_vars, reorganize_vars>>

\* the child Assignment.add_files makes of the metadata of a reference
RefClass(file_info) ==
    CASE file_info = "file" -> "File"
      [] file_info = "page" -> "Page"
      [] OTHER -> "None"

\* Assignment.add_files, one turn of the loop over the data-api-endpoint
\* references, or its end; an exception of download_item_information leaves
\* add_files and Assignment.sync
Assignment_canvas_file_url ==
    /\ handler = "assignment"
    /\ e_pc = "canvas_file_urls"
    /\ IF e_i < Len(api.canvas_file_urls)
       THEN LET file_info == api.canvas_file_urls[e_i + 1] IN
            IF file_info = "raise"
            THEN /\ e_pc' = "raised"
                 /\ UNCHANGED <<new_children, e_i>>
            ELSE /\ new_children' =
                       IF RefClass(file_info) = "None" THEN new_children
                       ELSE Append(new_children,
                                   NewRefChild(RefClass(file_info), e_i + 1, fields.sync_path))
                 /\ e_i' = e_i + 1
                 /\ e_pc' = e_pc
       ELSE /\ e_pc' = IF settings.download_linked THEN "urls" ELSE "make_html"
            /\ e_i' = 0
            /\ UNCHANGED new_children
    /\ UNCHANGED <<handler, settings, api, fields>>
    /\ UNCHANGED <<engine_vars, policy_vars, dedup_vars, reorganize_vars>>

\* Assignment.add_files, one turn of the loop over the href references, or its end
Assignment_url ==
    /\ handler = "assignment"
    /\ e_pc = "urls"
    /\ IF e_i < Len(api.urls)
       THEN /\ new_children' =
                  IF api.urls[e_i + 1]
                  THEN Append(new_children,
                              NewRefChild("LinkedFile", e_i + 1, fields.sync_path))
                  ELSE new_children
            /\ e_i' = e_i + 1
            /\ e_pc' = e_pc
       ELSE /\ e_pc' = "make_html"
            /\ e_i' = 0
            /\ UNCHANGED new_children
    /\ UNCHANGED <<handler, settings, api, fields>>
    /\ UNCHANGED <<engine_vars, policy_vars, dedup_vars, reorganize_vars>>

\* Assignment.make_html: the path of the HTML file; super().sync() next
Assignment_make_html ==
    /\ handler = "assignment"
    /\ e_pc = "make_html"
    /\ fields' = [fields EXCEPT !.html = join(fields.sync_path, HtmlName)]
    /\ e_pc' = "super_sync"
    /\ UNCHANGED <<handler, settings, api, new_children, e_i>>
    /\ UNCHANGED <<engine_vars, policy_vars, dedup_vars, reorganize_vars>>

NextLinked ==
    \/ Page_canvas_file_url
    \/ Page_url
    \/ Page_make_html
    \/ Page_update_path
    \/ Assignment_canvas_file_url
    \/ Assignment_url
    \/ Assignment_make_html

LinkedSpec == InitLinked /\ [][NextLinked]_vars

(***************************************************************************)
(* Properties of the embedded references.                                  *)
(***************************************************************************)
\* the folder named after the page, under the folder of its parent
PageFolder == join(ParentPath, OwnName)

\* C29: the HTML file of a Page is in the sub-folder named after the page if and
\* only if the extraction of references gave the page at least one child, and is
\* directly in the folder of the parent otherwise; when the children are
\* dispatched the path of every child is inside that sub-folder
C29_NestedIffChildren ==
    (handler = "page" /\ e_pc \in {"update_path", "super_sync"}) =>
        /\ fields.html = IF new_children # <<>> THEN join(PageFolder, HtmlName)
                         ELSE join(ParentPath, HtmlName)
        /\ e_pc = "super_sync" =>
              \A i \in 1 .. Len(new_children) :
                  new_children[i].sync_path = join(PageFolder, new_children[i].name)

C29_Witness ==
    /\ handler = "page"
    /\ e_pc = "super_sync"
    /\ \E i, j \in 1 .. Len(new_children) :
          new_children[i].class = "File" /\ new_children[j].class = "LinkedFile"

\* the references the owner turns into a child: file metadata, and for an
\* Assignment also page metadata
Recognised(i) ==
    \/ api.canvas_file_urls[i] = "file"
    \/ handler = "assignment" /\ api.canvas_file_urls[i] = "page"
HasRefChild(i) ==
    \E j \in 1 .. Len(new_children) :
        new_children[j].class \in {"File", "Page"} /\ new_children[j].name.i = i

\* C30: in the body of a Page and in the description of an Assignment alike, a
\* data-api-endpoint reference whose resolution raises, answers nothing or
\* answers metadata that is neither a file's nor a page's gives no child and no
\* error: the owner's sync goes on, and once the loop is over exactly the other
\* references have their child
C30_DroppedSilently ==
    handler \in {"page", "assignment"} =>
        /\ e_pc # "raised"
        /\ e_pc \in {"urls", "make_html", "update_path", "super_sync"} =>
              \A i \in 1 .. Len(api.canvas_file_urls) : HasRefChild(i) <=> Recognised(i)

(***************************************************************************)
(* Synchronizer.add_courses, called MaxCalls times on the same             *)
(* Synchronizer against the same course listing.                           *)
(***************************************************************************)
MaxCalls == 2

\* a course_information of get_courses(), with or without its course_code
CourseInformation == [id : ModuleId, course_code : BOOLEAN]
CourseListings == UNION { [1 .. n -> CourseInformation] : n \in 0 .. MaxListed }

InitRepeat ==
    /\ handler = "synchronizer"
    /\ settings = <<>>
    /\ api \in [courses : CourseListings]
    /\ fields = [calls |-> 0]
    /\ new_children = <<>>
    /\ e_pc = "add_courses"
    /\ e_i = 0
    /\ EngineIdle
    /\ PolicyIdle
    /\ DedupIdle
    /\ ReorganizeIdle

\* CanvasEntity.add_child
add_child(list_of_children, child) == Append(list_of_children, child)

\* Synchronizer.add_courses, one turn of the loop, or its end
Synchronizer_add_course ==
    /\ handler = "synchronizer"
    /\ e_pc = "add_courses"
    /\ IF e_i < Len(api.courses)
       THEN LET course_information == api.courses[e_i + 1] IN
            /\ new_children' =
                  IF ~course_information.course_code THEN new_children
                  ELSE add_child(new_children,
                                 [class |-> "Course", id |-> course_information.id])
            /\ e_i' = e_i + 1
            /\ UNCHANGED <<e_pc, fields>>
       ELSE /\ e_pc' = "returned"
            /\ fields' = [fields EXCEPT !.calls = @ + 1]
            /\ UNCHANGED <<new_children, e_i>>
    /\ UNCHANGED <<handler, settings, api>>
    /\ UNCHANGED <<engine_vars, policy_vars, dedup_vars, reorganize_vars>>

\* a further call of add_courses on the same Synchronizer
Synchronizer_add_courses ==
    /\ handler = "synchronizer"
    /\ e_pc = "returned"
    /\ fields.calls < MaxCalls
    /\ e_pc' = "add_courses"
    /\ e_i' = 0
    /\ UNCHANGED <<handler, settings, api, fields, new_children>>
    /\ UNCHANGED <<engine_vars, policy_vars, dedup_vars, reorganize_vars>>

NextRepeat == Synchronizer_add_course \/ Synchronizer_add_courses

RepeatSpec == InitRepeat /\ [][NextRepeat]_vars

(***************************************************************************)
(* Properties of a repeated enumeration.                                   *)
(***************************************************************************)
\* the courses of the listing that carry a course_code, in listed order
RECURSIVE ListedCourses(_)
ListedCourses(l) ==
    IF l = <<>> THEN <<>>
    ELSE (IF Head(l).course_code THEN <<[class |-> "Course", id |-> Head(l).id]>> ELSE <<>>)
         \o ListedCourses(Tail(l))

\* C31: the enumeration of children is idempotent: whenever add_courses has
\* returned, after the first call and after every further call against the same
\* listing, the children are the listed courses, once each
C31_EnumerationIdempotent ==
    (handler = "synchronizer" /\ e_pc = "returned") =>
        new_children = ListedCourses(api.courses)

(***************************************************************************)
(* The local paths of the File children of a Folder: File.__init__ joins   *)
(* the folder's path with helpers.get_corrected_name(display_name).  A     *)
(* name is the sequence of its characters.                                 *)
(***************************************************************************)
NameChar == {"a", "."}
DisplayNames == UNION { [1 .. n -> NameChar] : n \in 1 .. MaxLen }
\* the files get_files_in_folder lists; the id of a file is its position
NamedListings == UNION { [1 .. n -> DisplayNames] : n \in 0 .. MaxListed }

\* str.strip(" .")
RECURSIVE lstrip(_)
lstrip(name) ==
    IF name # <<>> /\ Head(name) \in {" ", "."} THEN lstrip(Tail(name)) ELSE name
RECURSIVE rstrip(_)
rstrip(name) ==
    IF name # <<>> /\ name[Len(name)] \in {" ", "."}
    THEN rstrip(SubSeq(name, 1, Len(name) - 1)) ELSE name

\* helpers.get_corrected_name on names shorter than max_length
get_corrected_name(name) == rstrip(lstrip(name))

InitPaths ==
    /\ handler = "folder_paths"
    /\ settings = <<>>
    /\ api \in [files : NamedListings]
    /\ fields = [sync_path |-> ParentPath]
    /\ new_children = <<>>
    /\ e_pc = "add_files"
    /\ e_i = 0
    /\ EngineIdle
    /\ PolicyIdle
    /\ DedupIdle
    /\ ReorganizeIdle

\* Folder.add_files with an empty black list, one turn of the loop, or its end:
\* File(file, self) takes its name and its path from the display_name
Folder_add_named_file ==
    /\ handler = "folder_paths"
    /\ e_pc = "add_files"
    /\ IF e_i < Len(api.files)
       THEN LET file_name == get_corrected_name(api.files[e_i + 1]) IN
            /\ new_children' = add_child(new_children,
                                   [class |-> "File", id |-> e_i + 1, name |-> file_name,
                                    sync_path |-> join(fields.sync_path, file_name)])
            /\ e_i' = e_i + 1
            /\ e_pc' = e_pc
       ELSE /\ e_pc' = "super_sync"
            /\ UNCHANGED <<new_children, e_i>>
    /\ UNCHANGED <<handler, settings, api, fields>>
    /\ UNCHANGED <<engine_vars, policy_vars, dedup_vars, reorganize_vars>>

PathSpec == InitPaths /\ [][Folder_add_named_file]_vars

\* C32: no two children of the same parent have the same local path, also when
\* the display names of two listed files are equal or become equal by correction
C32_SiblingPathsDiffer ==
    handler = "folder_paths" =>
        \A i, j \in 1 .. Len(new_children) :
            i # j => new_children[i].sync_path # new_children[j].sync_path

(***************************************************************************)
(* Termination of the engine.                                              *)
(***************************************************************************)
\* no sync leaves the print-turn loop with an exception unless a sync has raised
NoRaiseOfItsOwn ==
    \A n \in Node : (pc[n] = "wait" /\ pc'[n] = "raised") => AnyRaised

\* C33: under fair scheduling, on any tree and with any number of worker threads
\* per executor from one up, a run in which no sync raises comes to the state
\* where every node has flushed and returned from sync, the root included; the
\* print-turn wait raises nothing of its own
C33_EveryNodeReturns ==
    /\ [][NoRaiseOfItsOwn]_vars
    /\ <>(AnyRaised \/ AllDone)

\* every node returned with one worker thread per executor, on a tree where some
\* sync was queued behind its sibling while that sibling's own children ran
C33_Witness ==
    /\ AllDone
    /\ max_workers = 1
    /\ \E n, m \in Node :
          /\ n # m /\ parent(n) = parent(m)
          /\ \E d \in Node : parent(d) = n

(***************************************************************************)
(* Properties of the counter child_to_print.                               *)
(***************************************************************************)
\* the children of p between their flush and their increment of p's counter
Flushed(p) ==
    { c \in Range(children[p]) : pc[c] \in {"flush", "printed", "join", "inc", "inc_w"} }
\* the children of p whose sync has returned
Completed(p) == { c \in Range(children[p]) : pc[c] = "done" }

CounterExact ==
    \A p \in Node :
        /\ child_to_print[p] \in 0 .. Len(children[p])
        /\ child_to_print[p] = Cardinality(Completed(p))
        /\ Cardinality(Flushed(p)) <= 1

CounterStep ==
    \A p \in Node : child_to_print'[p] \in {child_to_print[p], child_to_print[p] + 1}

\* C34: for every parent, child_to_print never decreases and grows by one at a
\* time, stays within 0 .. len(children), is the number of children whose sync has
\* returned, and at most one child at a time is between its flush and its
\* increment, so that the unsynchronised read and write of line 246 lose no update
C34_CounterExact ==
    /\ [] CounterExact
    /\ [][CounterStep]_vars

\* a child has read the counter of a parent with another child still to come, and
\* an earlier child of that parent has already been counted
C34_Witness ==
    \E n \in Node :
        /\ pc[n] = "inc_w"
        /\ tmp[n] >= 1
        /\ Len(children[parent(n)]) >= 3

(***************************************************************************)
(* CanvasEntity.sync(threaded=False), lines 223-227, on one entity of the  *)
(* tree (kind "unthreaded"); every other entity syncs with threaded=True,  *)
(* which is what child.sync() of line 225 runs.  join_i of the unthreaded  *)
(* entity counts the children its loop has called.                         *)
(***************************************************************************)
InitUnthreaded ==
    /\ remote_parent \in { f \in [Node -> Node \cup {None}] : IsTree(f) }
    /\ kind \in { [n \in Node |-> IF n = s THEN "unthreaded" ELSE "entity"] :
                    s \in Node \ {Root} }
    /\ InitEngine

\* lines 224-225: the loop calls the sync of the next child on its own thread, or,
\* after the last child, goes on to line 227
CallChild(n) ==
    /\ pc[n] = "submit"
    /\ kind[n] = "unthreaded"
    /\ IF join_i[n] < Len(children[n])
       THEN pc' = [pc EXCEPT ![n] = "call", ![children[n][join_i[n] + 1]] = "body"]
       ELSE pc' = [pc EXCEPT ![n] = "flush"]
    /\ flush_i' = [flush_i EXCEPT ![n] = 0]
    /\ UNCHANGED <<policy_vars, dedup_vars, reorganize_vars, enum_vars>>
    /\ UNCHANGED <<remote_parent, max_workers, kind, ret, written, children, print_queue,
                   has_printed, child_to_print, join_i, tmp, output>>

\* line 225: child.sync() returns, or raises into the loop
ChildReturned(n) ==
    /\ pc[n] = "call"
    /\ LET c == children[n][join_i[n] + 1] IN
       /\ pc[c] \in {"done", "raised"}
       /\ pc' = [pc EXCEPT ![n] = IF pc[c] = "raised" THEN "raised" ELSE "submit"]
       /\ join_i' = [join_i EXCEPT ![n] = IF pc[c] = "raised" THEN @ ELSE @ + 1]
    /\ UNCHANGED <<policy_vars, dedup_vars, reorganize_vars, enum_vars>>
    /\ UNCHANGED <<remote_parent, max_workers, kind, ret, written, children, print_queue,
                   has_printed, child_to_print, flush_i, tmp, output>>

NextUnthreaded ==
    \E n \in Node :
        \/ Start(n)
        \/ Body(n)
        \/ kind[n] # "unthreaded" /\ Submit(n)
        \/ CallChild(n)
        \/ ChildReturned(n)
        \/ WaitTurn(n)
        \/ PrintLine(n)
        \/ MarkPrinted(n)
        \/ Join(n)
        \/ IncRead(n)
        \/ IncWrite(n)

UnthreadedSpec == InitUnthreaded /\ [][NextUnthreaded]_vars

\* C35: sync(threaded=False) of an entity with at least one child terminates:
\* when no thread can take a step any more and no sync has raised, the entity has
\* returned with its own lines flushed and every child synchronized
C35_UnthreadedTerminates ==
    \A n \in Node :
        (/\ kind[n] = "unthreaded"
         /\ pc[n] \notin {"none", "new", "queued", "body"}
         /\ children[n] # <<>>
         /\ ~AnyRaised
         /\ ~ENABLED NextUnthreaded)
        => /\ pc[n] = "done"
           /\ has_printed[n]
           /\ \A c \in Range(children[n]) : pc[c] = "done"

(***************************************************************************)
(* Properties of the mirror file of an ExternalUrl.                        *)
(***************************************************************************)
\* C36: download_url_content returns a boolean on every path and raises nothing;
\* for a URL that is not blacklisted, with no mirror file yet and a successful
\* GET, it writes the mirror file and returns, and the ExternalUrl buffers its
\* SYNCED line
C36_ReturnsBoolean ==
    leaf = "external_url" =>
        \A i \in 1 .. Len(log) :
            LET e == log[i] IN
            /\ ~e.raised
            /\ e.ret \in {"True", "False"}
            /\ "SYNCED" \in Range(e.lines)
            /\ (~remote.blacklisted /\ ~e.before.exists /\ remote.get = "ok") =>
                  MirrorWrites(e) = 1 /\ e.after.data = remote.content

\* the shrink guard of lines 153-155 kept the old content of the mirror file
GuardBlocked(e) ==
    /\ DownloadedOverDifferent(e)
    /\ 2 * Len(remote.content) <= Max(1, Len(e.before.data))

\* C37: an ExternalUrl reports DOWNLOADING only when the content of the mirror
\* file was written during this sync; when the shrink guard blocks the overwrite,
\* nothing is reported as downloaded and the modification time of the mirror file
\* stays as it was
C37_ReportedOnlyIfWritten ==
    leaf = "external_url" =>
        \A i \in 1 .. Len(log) :
            LET e == log[i] IN
            /\ "DOWNLOADING" \in Range(e.lines) => MirrorWrites(e) = 1
            /\ GuardBlocked(e) =>
                  /\ e.ret = "False"
                  /\ "DOWNLOADING" \notin Range(e.lines)
                  /\ e.after.mtime = e.before.mtime

(***************************************************************************)
(* Properties of the exclusion set of a sub-folder, on the branches of a   *)
(* course synced with duplicate avoidance on.                              *)
(***************************************************************************)
InitInherit == InitDedup /\ avoid_duplicates

InheritSpec == InitInherit /\ [][NextDedup]_vars

\* C38: with duplicate avoidance on, the exclusion set of a sub-folder holds
\* every id of the exclusion set of its parent folder, and when the parent's set
\* is not empty the sub-folder's set is that same set, whatever the registry has
\* become by the time the sub-folder syncs
C38_BlackListInherited ==
    (avoid_duplicates /\ branch_pc["sub_folder"] # "none") =>
        /\ Range(black_list["files"]) \subseteq Range(black_list["sub_folder"])
        /\ black_list["files"] # <<>> => black_list["sub_folder"] = black_list["files"]

\* the sub-folder has taken its exclusion set from a parent whose set was not
\* empty, after a Module had registered a further file
C38_Witness ==
    /\ avoid_duplicates
    /\ branch_pc["sub_folder"] \notin {"none", "black_list"}
    /\ black_list["files"] # <<>>
    /\ black_list["sub_folder"] = black_list["files"]
    /\ Len(entities) > Len(black_list["files"])

(***************************************************************************)
(* A SubHeader inside the engine.                                          *)
(***************************************************************************)
\* a hierarchy of containers, one of them a SubHeader
InitSubHeader ==
    /\ remote_parent \in { f \in [Node -> Node \cup {None}] : IsTree(f) }
    /\ kind \in { [n \in Node |-> IF n = s THEN "sub_header" ELSE "entity"] :
                    s \in Node \ {Root} }
    /\ InitEngine

SubHeaderSpec == InitSubHeader /\ [][Next]_vars

\* the positions of the lines of entity n in the output
LinesOf(n) == { i \in 1 .. Len(output) : output[i][1] = n }

====
